---- MODULE Spec2Model ----
(***************************************************************************)
(* jnv: the interactive evaluation engine.                                 *)
(*                                                                         *)
(* Spec          the evaluator pipeline: Context, Processor (evaluation    *)
(*               tasks with tokio abort semantics), ViewInitializer,       *)
(*               spinner, and the query / resize branches of the           *)
(*               processor task of prompt::run.                            *)
(* SpecRouter    the main task's global shortcuts (Ctrl-O, Shift-Up/Down), *)
(*               the copy branch of the processor task, and the            *)
(*               evaluation tasks.                                         *)
(* SpecDebounce  spawn_debouncer between the editor task and the processor *)
(*               task, with a discrete clock.                              *)
(* SpecTrie      FilterTrie: insert, exact_search, prefix_search.          *)
(* SpecJnv       Jnv::try_new and Jnv::evaluate of jnv.rs: evaluation with *)
(*               the FilterTrie cache (exact hit, longest-prefix fallback, *)
(*               insertion on success).                                    *)
(* SpecRender    Renderer::evaluate of jnv/render.rs: QueryTrie, no exact  *)
(*               lookup.                                                   *)
(* SpecAsync     Jnv::sync of jnv_async.rs: the evaluation is a spawned    *)
(*               task that works on a copy of the trie.                    *)
(* SpecJson      Json::create_panes_from_query of json.rs, the evaluation  *)
(*               of the program main.rs builds: no cache.                  *)
(* SpecSearch    the load task of IncrementalSearcher.                     *)
(*                                                                         *)
(* The source tree holds four generations of the evaluation: main.rs       *)
(* declares the modules editor, config, json, processor, prompt, render    *)
(* and search only; jnv.rs, jnv_async.rs, jnv/ and trie.rs are not part of *)
(* its module tree.  Each is modelled by its own specification over the    *)
(* same variables.  In SpecJnv, SpecRender, SpecAsync and SpecJson the     *)
(* engine's answer is drawn afresh at every invocation, except where the   *)
(* code fixes it (a document without values, the identity query).          *)
(*                                                                         *)
(* Scheduling model of Spec and SpecRouter.  #[tokio::main]                *)
(* (src/src/main.rs:215) is the multi-thread runtime: spawned tasks run on *)
(* different workers, so their steps interleave between any two lock       *)
(* operations.  JoinHandle::abort only marks the task: a task that is      *)
(* parked (never polled yet, or pending on a lock) is dropped without      *)
(* running again; a task that is being polled keeps running until it next  *)
(* returns Pending or completes.  A critical section that contains no      *)
(* await (lock, a few assignments, unlock) is one atomic step.             *)
(*                                                                         *)
(* Timing model of SpecDebounce.  Time advances in ticks; Duration ticks   *)
(* make one debounce duration.  A step of the debouncer or of the editor   *)
(* task that is ready is taken before the clock advances (the runtime's    *)
(* wake-up latency is negligible against the duration); the processor task *)
(* may be busy for any length of time.  When the delay has expired and a   *)
(* value is waiting at the same instant, tokio::select! takes either       *)
(* branch.                                                                 *)
(***************************************************************************)
EXTENDS Integers, Sequences, FiniteSets, TLC

\* ---------------------------------------------------------------- bounds
\* Number of evaluation tasks that may be spawned in one behaviour.
MaxTasks == 2
\* Number of editor text changes in one behaviour.
MaxVals == 3
\* Last instant of the clock.
MaxTime == 6
\* Number of resize deliveries in one behaviour.
MaxResize == 1
\* Number of keys the trie may hold.
MaxKeys == 2
\* Longest key and longest query, in characters.
MaxLen == 2
\* Largest chunk size of the load task, and most items its provider yields
MaxChunk == 3
MaxTotal == 4
\* Largest paging step and most lines of the listbox of suggestions
MaxPage == 2
\* Most pairs (index, pane) in one call of update_and_draw
MaxIter == 2
\* Largest value written after a key of the configuration file
MaxRaw == 1

\* ------------------------------------------------------------ value sets
Queries == {".a", ".foo("}
NoQuery == ""
Areas == 1..2
NoArea == 0
Tasks == 1..MaxTasks
NoTask == 0
\* Holder id of the processor task of prompt::run in vizLock.
PTHolder == MaxTasks + 1
\* One debounce duration, in ticks (query_debounce_duration: 600 ms, a tick
\* standing for 300 ms).
Duration == 2
\* Editor texts, numbered in the order the changes happen.
Vals == 1..MaxVals
\* Option::None of a text
NoVal == 0
\* Characters of keys and queries
Chars == {".", "a"}
Keys == UNION {[1..n -> Chars] : n \in 0..MaxLen}
\* Cached results
Results == 1..2
\* Option::None of a result
NoResult == 0
\* A result with no value, and a result whose values are all null
EmptyResult == 3
NullResult == 4

VARIABLES
    \* Context (processor.rs:37-41)
    state, area, current_task,
    \* evaluation tasks spawned by spawn_process_task
    tasks, nSpawned,
    \* Arc<Mutex<..>> holders: the visualizer and the pane array
    vizLock, panesLock,
    \* panes Processor / ProcessorGuide / Guide
    procPane, procGuide, guidePane,
    \* spinner task
    spinPc,
    \* main task of prompt::run
    mainPc, mainPane, focus,
    \* initializer, then processor task of prompt::run
    ptPc, ptArg,
    \* processor_copy channel (capacity 1)
    copyCh,
    \* the query of the latest render_result / render_on_resize
    lastQuery,
    \* clock
    now,
    \* editor task: position, the text being sent, number of changes so far,
    \* the instant of each change
    edPc, edVal, nChg, chgAt,
    \* debouncer (prompt.rs:24-51): input channel, slot, time since
    \* Delay::new, position, the value taken from the slot, output channel
    debounce_rx, last_query, delay, dbPc, dbHold, last_tx,
    \* history: values received, instant of the latest receive, values
    \* emitted, values overwritten in the slot, time the slot has been
    \* non-empty, engine invocations per value
    recvd, recvAt, emitted, dbLost, dbAge, engine,
    \* processor task busy in its resize branch; resize deliveries so far
    ptBusy, nResize,
    \* FilterTrie: the value under each key (NoResult: not stored), the last
    \* call, its argument and what it returned
    trie, trieOp, trieArg, trieOut,
    \* single-threaded prompt (jnv.rs, jnv_async.rs, jnv/render.rs, json.rs):
    \* position, the document, the editor's text after the latest event, the
    \* viewer's stream, the hint shown, the content of the result pane, and
    \* whether the latest evaluation invoked the filter engine, and what the
    \* engine answered
    jnvPc, input_stream, filter, json_stream, hint, resp, jq_run, jq_ret,
    \* load task of the searcher (search.rs:53-92): position, its chunk size,
    \* the number of items the provider's iterator yields, the items taken
    \* from it so far, the local batch, the shared set, the shared LoadState
    ldPc, chunk_size, total, taken, batch, shared_set, shared_load_state,
    \* IncrementalSearcher as the editor drives it (search.rs:94-170):
    \* whether it is constructed, the listbox and its cursor, the matches
    \* not yet displayed, the paging step, the lines of the listbox, the
    \* latest call and the item it returned, and the StartSearchResult of
    \* the latest start_search (whether head_item is Some, load_state)
    sPc, listbox, position, search_chunk_remaining, search_result_chunk_size,
    lines, sOp, sOut, start_result,
    \* Renderer (render.rs:18-22): whether hints are disabled, and the
    \* array of panes by PaneIndex; rPc is "new" until try_init_draw
    rPc, no_hint, panes,
    \* prompt::run from enable_raw_mode to its return (prompt.rs:93-387):
    \* its position, the terminal's raw mode and cursor, what was printed
    \* on standard output, whether Ctrl-C waits in the event stream, the
    \* position of the main, editor and processor tasks, the editor_event
    \* channel, the editor's write lock, the editor's text, and the two
    \* debouncers with their channels
    runPc, raw_mode, cursor_hidden, stdout, ctrl_c, main_task,
    editor_task, processor_task, editor_event_tx, shared_editor,
    editor_text, debouncer,
    \* load_string (config.rs:28-34): whether it was called, the content of
    \* the file, and the Config or the error it returned
    cfgPc, content, config,
    \* Editor (editor.rs:11-18): the handler events go to (edit or search),
    \* the text of the text editor (cursor at its end), the text of the
    \* guide and the latest event it was given; in the keymap generation
    \* (jnv/keymap.rs) also whether Enter has toggled the viewer's node
    keybind, buffer, guide, event, toggled,
    \* The channel of the events forwarded to the processor task
    \* (prompt.rs:130): 1 when an event waits in it
    processor_event_tx

ctxVars == <<state, area, current_task>>
taskVars == <<tasks, nSpawned>>
lockVars == <<vizLock, panesLock>>
paneVars == <<procPane, procGuide, guidePane>>
mainVars == <<mainPc, mainPane, focus>>
ptVars == <<ptPc, ptArg>>
evalVars == <<ctxVars, taskVars, lockVars, paneVars, spinPc, mainVars, ptVars,
              copyCh, lastQuery>>
dbVars == <<now, edPc, edVal, nChg, chgAt, debounce_rx, last_query, delay, dbPc,
            dbHold, last_tx, recvd, recvAt, emitted, dbLost, dbAge, engine,
            ptBusy, nResize>>
trieVars == <<trie, trieOp, trieArg, trieOut>>
jnvVars == <<jnvPc, input_stream, filter, json_stream, hint, resp, jq_run,
            jq_ret>>
searchVars == <<ldPc, chunk_size, total, taken, batch, shared_set,
               shared_load_state>>

suggestVars == <<sPc, listbox, position, search_chunk_remaining, search_result_chunk_size,
    lines, sOp, sOut, start_result>>

rendererVars == <<rPc, no_hint, panes>>

sessionVars == <<runPc, raw_mode, cursor_hidden, stdout, ctrl_c, main_task,
    editor_task, processor_task, editor_event_tx, shared_editor,
    editor_text, debouncer>>

configVars == <<cfgPc, content, config>>

editorVars == <<keybind, buffer, guide, event, toggled>>

routeVars == <<processor_event_tx>>

\* What the actions of the evaluator pipeline leave alone.
otherVars == <<dbVars, trieVars, jnvVars, searchVars,
    suggestVars,
    rendererVars,
    sessionVars,
    configVars,
    editorVars,
    routeVars>>

vars == <<evalVars, dbVars, trieVars, jnvVars, searchVars,
    suggestVars,
    rendererVars,
    sessionVars,
    configVars,
    editorVars,
    routeVars>>

\* ----------------------------------------------------------------- panes
Pane(k, q, a) == [k |-> k, q |-> q, a |-> a]
EMPTY_PANE == Pane("empty", NoQuery, NoArea)
InitPane(a) == Pane("init", NoQuery, a)
LoadingPane == Pane("spin", NoQuery, NoArea)

\* run_jaq: a query either parses and runs, or fails.
JaqOk(q) == q # ".foo("

\* create_panes_from_query: (maybe_guide, maybe_resp); None is NoPane.
NoPane == Pane("none", NoQuery, NoArea)
QueryGuide(q, a) == IF JaqOk(q) THEN NoPane ELSE Pane("jq failed", q, a)
QueryResp(q, a) == IF JaqOk(q) THEN Pane("res", q, a) ELSE NoPane
UnwrapOr(p, d) == IF p = NoPane THEN d ELSE p

\* ----------------------------------------------------------------- tasks
NoTaskRec == [pc |-> "unspawned", query |-> NoQuery, area |-> NoArea,
              aborted |-> FALSE, parked |-> FALSE]
EndRec(pc) == [NoTaskRec EXCEPT !.pc = pc]
Finished(t) == tasks[t].pc \in {"unspawned", "done", "cancelled"}

\* JoinHandle::abort: marks a task that has not finished.
Abort(ts, t) ==
    IF t = NoTask \/ ts[t].pc \in {"unspawned", "done", "cancelled"}
    THEN ts
    ELSE [ts EXCEPT ![t].aborted = TRUE]

\* ----------------------------------------- values of the configuration
\* Fields of Config, one of each kind that merge converts differently: a
\* duration in milliseconds that also has an alias, a number, an optional
\* style, a style, and a key.
ConfigFields == {"query_debounce_duration", "search_result_chunk_size",
                 "active_item_style", "prefix_style", "search_up"}
Alias == "query_debounce_duration_ms"
Unknown == "unknown_field"
FileKeys == ConfigFields \cup {Alias, Unknown}
\* What a file writes after a key; Absent for a key it does not have
RawValues == 0..MaxRaw
Absent == -1
\* The files: each key absent or with a value
ConfigFiles == [FileKeys -> RawValues \cup {Absent}]
Present(c) == {k \in FileKeys : c[k] # Absent}

\* crossterm values as numbers: a style with the foreground colour n, a
\* key event with the code n and no modifier, Some(style)
Style(n) == 10 + n
KeyEvent(n) == 20 + n
Some(style) == 100 + style

\* The value of a field of Config made from what the file writes:
\* DurationMilliSeconds, usize, Some(style.try_into()?), style.try_into()?
\* and KeyEvent.try_into()?
Converted(f, raw) ==
    CASE f = "query_debounce_duration" -> raw
      [] f = "search_result_chunk_size" -> raw
      [] f = "active_item_style" -> Some(Style(raw))
      [] f = "prefix_style" -> Style(raw)
      [] f = "search_up" -> KeyEvent(raw)

\* impl Default for Config (lines 333-429): 600 ms, 100 items, Some(grey),
\* blue, Up
Default ==
    [f \in ConfigFields |->
        CASE f = "query_debounce_duration" -> 600
          [] f = "search_result_chunk_size" -> 100
          [] f = "active_item_style" -> Some(Style(8))
          [] f = "prefix_style" -> Style(9)
          [] f = "search_up" -> KeyEvent(7)]

\* tokio::spawn of the future of spawn_process_task: not polled yet.
Spawned(ts, t, q) ==
    [ts EXCEPT ![t] = [pc |-> "new", query |-> q, area |-> NoArea,
                       aborted |-> FALSE, parked |-> TRUE]]

Init ==
    /\ state = "Idle" /\ area = 1 /\ current_task = NoTask
    /\ tasks = [t \in Tasks |-> NoTaskRec] /\ nSpawned = 0
    /\ vizLock = 0 /\ panesLock = 0
    /\ procPane = EMPTY_PANE
    /\ procGuide = EMPTY_PANE /\ guidePane = EMPTY_PANE
    /\ spinPc = "tick"
    /\ mainPc = "read" /\ mainPane = EMPTY_PANE /\ focus = "Editor"
    /\ ptPc = "init0" /\ ptArg = 0
    /\ copyCh = 0
    /\ lastQuery = NoQuery
    /\ now = 0
    /\ edPc = "idle" /\ edVal = NoVal /\ nChg = 0
    /\ chgAt = [v \in Vals |-> 0]
    /\ debounce_rx = NoVal /\ last_query = NoVal /\ delay = 0
    /\ dbPc = "select" /\ dbHold = NoVal /\ last_tx = NoVal
    /\ recvd = <<>> /\ recvAt = 0 /\ emitted = <<>>
    /\ dbLost = {} /\ dbAge = 0
    /\ engine = [v \in Vals |-> 0]
    /\ ptBusy = FALSE /\ nResize = 0
    /\ trie = [k \in Keys |-> NoResult]
    /\ trieOp = "none" /\ trieArg = <<>> /\ trieOut = NoResult
    /\ jnvPc = "new" /\ input_stream = NoResult /\ filter = <<>>
    /\ json_stream = NoResult /\ hint = "init" /\ resp = NoResult
    /\ jq_run = FALSE /\ jq_ret = [kind |-> "none", val |-> NoResult]
    /\ ldPc = "new" /\ chunk_size = 0 /\ total = 0 /\ taken = 0
    /\ batch = {} /\ shared_set = {}
    /\ shared_load_state = [loaded |-> FALSE, loaded_item_len |-> 0]
    /\ sPc = "new" /\ listbox = <<>> /\ position = 0
    /\ search_chunk_remaining = <<>> /\ search_result_chunk_size = 0
    /\ lines = 0 /\ sOp = "none" /\ sOut = 0
    /\ start_result = [head_some |-> FALSE,
                       load_state |-> [loaded |-> FALSE, loaded_item_len |-> 0]]
    /\ rPc = "new" /\ no_hint = FALSE /\ panes = <<>>
    /\ runPc = "start" /\ raw_mode = FALSE /\ cursor_hidden = FALSE
    /\ stdout = <<>> /\ ctrl_c = FALSE
    /\ main_task = "unspawned" /\ editor_task = "unspawned"
    /\ processor_task = "unspawned"
    /\ editor_event_tx = 0 /\ shared_editor = "free" /\ editor_text = 0
    /\ debouncer = [d \in {"query", "resize"} |->
                       [rx |-> 0, slot |-> 0, pc |-> "unspawned", tx |-> 0]]
    /\ cfgPc = "new" /\ content = [k \in FileKeys |-> Absent]
    /\ config = [err |-> FALSE, val |-> Default]
    /\ keybind = "edit" /\ buffer = <<>> /\ guide = "" /\ event = "none"
    /\ toggled = FALSE
    /\ processor_event_tx = 0

\* ------------------------------------------- evaluation task (processor.rs)
\* First poll of a spawned task.  A task aborted before its first poll is
\* dropped instead (TaskDrop).
TaskStart(t) ==
    /\ tasks[t].pc = "new" /\ ~tasks[t].aborted
    /\ tasks' = [tasks EXCEPT ![t].pc = "a1", ![t].parked = FALSE]
    /\ UNCHANGED <<ctxVars, nSpawned, lockVars, paneVars, spinPc, mainVars,
                   ptVars, copyCh, lastQuery, otherVars>>

\* The runtime drops the future of an aborted task that is parked: its lock
\* guards are dropped with it.
TaskDrop(t) ==
    /\ tasks[t].pc \in {"new", "a3", "a4"}
    /\ tasks[t].aborted /\ tasks[t].parked
    /\ tasks' = [tasks EXCEPT ![t] = EndRec("cancelled")]
    /\ panesLock' = IF panesLock = t THEN 0 ELSE panesLock
    /\ vizLock' = IF vizLock = t THEN 0 ELSE vizLock
    /\ UNCHANGED <<ctxVars, nSpawned, paneVars, spinPc, mainVars, ptVars,
                   copyCh, lastQuery, otherVars>>

\* shared.lock().await (lines 72, 77, 87) returns Pending when another
\* worker holds the context lock at that instant (the spinner takes it on
\* every tick): the task parks there, and an aborted task that parks is
\* dropped with the guards it holds.
TaskCtxPark(t) ==
    /\ tasks[t].pc \in {"a1", "a2", "a5"}
    /\ tasks[t].aborted /\ ~tasks[t].parked
    /\ tasks' = [tasks EXCEPT ![t] = EndRec("cancelled")]
    /\ panesLock' = IF panesLock = t THEN 0 ELSE panesLock
    /\ UNCHANGED <<ctxVars, nSpawned, vizLock, paneVars, spinPc, mainVars,
                   ptVars, copyCh, lastQuery, otherVars>>

\* lines 71-74
TaskSetProcessing(t) ==
    /\ tasks[t].pc = "a1" /\ ~tasks[t].parked
    /\ state' = "Processing"
    /\ tasks' = [tasks EXCEPT ![t].pc = "a2"]
    /\ UNCHANGED <<area, current_task, nSpawned, lockVars, paneVars, spinPc,
                   mainVars, ptVars, copyCh, lastQuery, otherVars>>

\* lines 77-79
TaskReadArea(t) ==
    /\ tasks[t].pc = "a2" /\ ~tasks[t].parked
    /\ tasks' = [tasks EXCEPT ![t].pc = "a3", ![t].area = area]
    /\ UNCHANGED <<ctxVars, nSpawned, lockVars, paneVars, spinPc, mainVars,
                   ptVars, copyCh, lastQuery, otherVars>>

\* line 81: shared_visualizer.lock().await
TaskLockViz(t) ==
    /\ tasks[t].pc = "a3"
    /\ \/ /\ vizLock = 0
          /\ ~(tasks[t].parked /\ tasks[t].aborted)
          /\ vizLock' = t
          /\ tasks' = [tasks EXCEPT ![t].pc = "compute", ![t].parked = FALSE]
       \/ /\ vizLock # 0 /\ ~tasks[t].parked
          /\ tasks' = [tasks EXCEPT ![t].parked = TRUE]
          /\ UNCHANGED vizLock
    /\ UNCHANGED <<ctxVars, nSpawned, panesLock, paneVars, spinPc, mainVars,
                   ptVars, copyCh, lastQuery, otherVars>>

\* lines 82-83: create_panes_from_query (json.rs:146-182) has no await in
\* it; the visualizer guard is dropped at the end of the block.
TaskCompute(t) ==
    /\ tasks[t].pc = "compute"
    /\ vizLock' = 0
    /\ tasks' = [tasks EXCEPT ![t].pc = "a4"]
    /\ UNCHANGED <<ctxVars, nSpawned, panesLock, procPane, procGuide,
                   guidePane, spinPc, mainVars, ptVars, copyCh, lastQuery, otherVars>>

\* line 86: shared_panes.lock().await
TaskLockPanes(t) ==
    /\ tasks[t].pc = "a4"
    /\ \/ /\ panesLock = 0
          /\ ~(tasks[t].parked /\ tasks[t].aborted)
          /\ panesLock' = t
          /\ tasks' = [tasks EXCEPT ![t].pc = "a5", ![t].parked = FALSE]
       \/ /\ panesLock # 0 /\ ~tasks[t].parked
          /\ tasks' = [tasks EXCEPT ![t].parked = TRUE]
          /\ UNCHANGED panesLock
    /\ UNCHANGED <<ctxVars, nSpawned, vizLock, paneVars, spinPc, mainVars,
                   ptVars, copyCh, lastQuery, otherVars>>

\* lines 87-94: context lock, terminal lock (only ever taken under the
\* panes lock, so never contended), the two pane writes, state = Idle, draw.
TaskWrite(t) ==
    /\ tasks[t].pc = "a5" /\ ~tasks[t].parked
    /\ procGuide' = UnwrapOr(QueryGuide(tasks[t].query, tasks[t].area), EMPTY_PANE)
    /\ procPane' = UnwrapOr(QueryResp(tasks[t].query, tasks[t].area), EMPTY_PANE)
    /\ state' = "Idle"
    /\ panesLock' = 0
    /\ tasks' = [tasks EXCEPT ![t] = EndRec("done")]
    /\ UNCHANGED <<area, current_task, nSpawned, vizLock, guidePane, spinPc,
                   mainVars, ptVars, copyCh, lastQuery, otherVars>>

\* --------------------------------------------- spinner (spinner.rs:28-57)
\* lines 31-38: one tick; the context lock is released before the write.
SpinTick ==
    /\ spinPc = "tick"
    /\ spinPc' = IF state = "Idle" THEN "tick" ELSE "write"
    /\ UNCHANGED <<ctxVars, taskVars, lockVars, paneVars, mainVars, ptVars,
                   copyCh, lastQuery, otherVars>>

\* lines 40-54: the loading frame overwrites the Processor pane.
SpinWrite ==
    /\ spinPc = "write" /\ panesLock = 0
    /\ procPane' = LoadingPane
    /\ spinPc' = "tick"
    /\ UNCHANGED <<ctxVars, taskVars, lockVars, procGuide, guidePane,
                   mainVars, ptVars, copyCh, lastQuery, otherVars>>

\* ------------------------------------- ViewInitializer::initialize (init.rs)
\* lines 36-42
InitStart ==
    /\ ptPc = "init0"
    /\ tasks' = Abort(tasks, current_task)
    /\ current_task' = NoTask
    /\ state' = "Loading"
    /\ ptPc' = "init1"
    /\ UNCHANGED <<area, nSpawned, lockVars, paneVars, spinPc, mainVars,
                   ptArg, copyCh, lastQuery, otherVars>>

\* lines 44-51: provide, create_init_pane, then state = Idle.
InitProvide ==
    /\ ptPc = "init1"
    /\ state' = "Idle"
    /\ ptPc' = "init2"
    /\ UNCHANGED <<area, current_task, taskVars, lockVars, procPane,
                   procGuide, guidePane, spinPc, mainVars, ptArg, copyCh,
                   lastQuery, otherVars>>

\* lines 52-58: the initial pane goes to the Processor pane; the processor
\* task of prompt::run is spawned after it (prompt.rs:305-307).
InitRender ==
    /\ ptPc = "init2" /\ panesLock = 0
    /\ procPane' = InitPane(area)
    /\ ptPc' = "select"
    /\ UNCHANGED <<ctxVars, taskVars, lockVars, procGuide, guidePane, spinPc,
                   mainVars, ptArg, copyCh, lastQuery, otherVars>>

\* ------------------------------------ processor task (prompt.rs:302-373)
\* The successor is spawned without cancelling the current task.
CancelAndSpawn_NoAbort(q) ==
    /\ nSpawned < MaxTasks
    /\ tasks' = Spawned(tasks, nSpawned + 1, q)
    /\ current_task' = NoTask
    /\ nSpawned' = nSpawned + 1
    /\ lastQuery' = q
    /\ ptArg' = nSpawned + 1
    /\ ptPc' = "rr_store"

\* render_result / render_on_resize, first half (processor.rs:106-115,
\* 130-138): cancel the current task, then spawn the successor.
CancelAndSpawn(q) ==
    /\ nSpawned < MaxTasks
    /\ tasks' = Spawned(Abort(tasks, current_task), nSpawned + 1, q)
    /\ current_task' = NoTask
    /\ nSpawned' = nSpawned + 1
    /\ lastQuery' = q
    /\ ptArg' = nSpawned + 1
    /\ ptPc' = "rr_store"

\* prompt.rs:332-338: a debounced query q arrives on last_query_rx.
PTQuery(q) ==
    /\ ptPc = "select"
    /\ CancelAndSpawn(q)
    /\ UNCHANGED <<state, area, lockVars, paneVars, spinPc, mainVars, copyCh,
                   otherVars>>

\* processor.rs:117-120, 140-143
PTStore ==
    /\ ptPc = "rr_store"
    /\ current_task' = ptArg
    /\ ptPc' = "select" /\ ptArg' = 0
    /\ UNCHANGED <<state, area, taskVars, lockVars, paneVars, spinPc,
                   mainVars, copyCh, lastQuery, otherVars>>

\* prompt.rs:339: a debounced area a arrives on last_resize_rx.
PTResize(a) ==
    /\ ptPc = "select" /\ nSpawned < MaxTasks
    /\ ptArg' = a
    /\ ptPc' = "rz_update"
    /\ UNCHANGED <<ctxVars, taskVars, lockVars, paneVars, spinPc, mainVars,
                   copyCh, lastQuery, otherVars>>

\* prompt.rs:340-354: the editor's panes are laid out again; the editor's
\* guide pane replaces the Guide pane.
PTResizeUpdate ==
    /\ ptPc = "rz_update" /\ panesLock = 0
    /\ guidePane' = EMPTY_PANE
    /\ ptPc' = "rz_render"
    /\ UNCHANGED <<ctxVars, taskVars, lockVars, procPane, procGuide, spinPc,
                   mainVars, ptArg, copyCh, lastQuery, otherVars>>

\* prompt.rs:355-364 and render_on_resize (processor.rs:98-115); text is the
\* editor's text at that moment.
PTResizeRender(text) ==
    /\ ptPc = "rz_render"
    /\ area' = ptArg
    /\ CancelAndSpawn(text)
    /\ UNCHANGED <<state, lockVars, paneVars, spinPc, mainVars, copyCh,
                   otherVars>>

\* prompt.rs:310
PTCopy ==
    /\ ptPc = "select" /\ copyCh > 0
    /\ copyCh' = 0
    /\ ptPc' = "cp_lock"
    /\ UNCHANGED <<ctxVars, taskVars, lockVars, paneVars, spinPc, mainVars,
                   ptArg, lastQuery, otherVars>>

\* prompt.rs:311-314: the visualizer is locked and its content goes to the
\* clipboard (copy_to_clipboard may fail: lines 53-73).
PTCopyLock ==
    /\ ptPc = "cp_lock" /\ vizLock = 0
    /\ vizLock' = PTHolder
    /\ \E ok \in BOOLEAN : ptArg' = IF ok THEN 1 ELSE 0
    /\ ptPc' = "cp_guide"
    /\ UNCHANGED <<ctxVars, taskVars, panesLock, paneVars, spinPc, mainVars,
                   copyCh, lastQuery, otherVars>>

\* prompt.rs:315-320: the outcome hint goes to the Guide pane; the
\* visualizer guard is dropped at the end of the branch.
PTCopyGuide ==
    /\ ptPc = "cp_guide" /\ panesLock = 0
    /\ guidePane' = Pane(IF ptArg = 1 THEN "copied" ELSE "copy failed",
                         NoQuery, NoArea)
    /\ vizLock' = 0
    /\ ptPc' = "select" /\ ptArg' = 0
    /\ UNCHANGED <<ctxVars, taskVars, panesLock, procPane, procGuide, spinPc,
                   mainVars, copyCh, lastQuery, otherVars>>

\* ------------------------------------------ main task (prompt.rs:142-244)
\* ContextMonitor::is_idle (monitor.rs:16-19)
is_idle == state = "Idle"

\* prompt.rs:169-184: Ctrl-O
MainCtrlO ==
    /\ mainPc = "read"
    /\ IF is_idle
       THEN mainPc' = "send_copy" /\ mainPane' = EMPTY_PANE
       ELSE mainPc' = "guide" /\ mainPane' = Pane("copy refused", NoQuery, NoArea)
    /\ UNCHANGED <<ctxVars, taskVars, lockVars, paneVars, spinPc, focus,
                   ptVars, copyCh, lastQuery, otherVars>>

\* prompt.rs:177: processor_copy_tx.send(()).await on a channel of capacity 1
MainSendCopy ==
    /\ mainPc = "send_copy" /\ copyCh = 0
    /\ copyCh' = 1
    /\ mainPc' = "guide"
    /\ UNCHANGED <<ctxVars, taskVars, lockVars, paneVars, spinPc, mainPane,
                   focus, ptVars, lastQuery, otherVars>>

\* prompt.rs:185-189, 214-218: the Guide pane update that ends the handler
MainGuide ==
    /\ mainPc = "guide" /\ panesLock = 0
    /\ guidePane' = mainPane
    /\ mainPc' = "read" /\ mainPane' = EMPTY_PANE
    /\ UNCHANGED <<ctxVars, taskVars, lockVars, procPane, procGuide, spinPc,
                   focus, ptVars, copyCh, lastQuery, otherVars>>

\* prompt.rs:191-224: Shift-Down / Shift-Up
MainShift ==
    /\ mainPc = "read"
    /\ IF focus = "Editor"
       THEN /\ focus' = IF is_idle THEN "Processor" ELSE focus
            /\ mainPane' = IF is_idle THEN EMPTY_PANE
                           ELSE Pane("switch refused", NoQuery, NoArea)
            /\ mainPc' = "guide"
       ELSE /\ focus' = "Editor"
            /\ UNCHANGED <<mainPc, mainPane>>
    /\ UNCHANGED <<ctxVars, taskVars, lockVars, paneVars, spinPc, ptVars,
                   copyCh, lastQuery, otherVars>>

Next ==
    \/ SpinTick \/ SpinWrite
    \/ InitStart \/ InitProvide \/ InitRender
    \/ \E q \in Queries : PTQuery(q)
    \/ PTStore
    \/ \E a \in Areas : PTResize(a)
    \/ PTResizeUpdate
    \/ \E q \in Queries : PTResizeRender(q)
    \/ \E t \in Tasks : TaskStart(t)
    \/ \E t \in Tasks : TaskDrop(t)
    \/ \E t \in Tasks : TaskCtxPark(t)
    \/ \E t \in Tasks : TaskSetProcessing(t)
    \/ \E t \in Tasks : TaskReadArea(t)
    \/ \E t \in Tasks : TaskLockViz(t)
    \/ \E t \in Tasks : TaskCompute(t)
    \/ \E t \in Tasks : TaskLockPanes(t)
    \/ \E t \in Tasks : TaskWrite(t)

Spec == Init /\ [][Next]_vars

RouterNext ==
    \/ InitStart \/ InitProvide \/ InitRender
    \/ \E q \in Queries : PTQuery(q)
    \/ PTStore
    \/ PTCopy \/ PTCopyLock \/ PTCopyGuide
    \/ MainCtrlO \/ MainSendCopy \/ MainGuide \/ MainShift
    \/ \E t \in Tasks : TaskStart(t)
    \/ \E t \in Tasks : TaskDrop(t)
    \/ \E t \in Tasks : TaskCtxPark(t)
    \/ \E t \in Tasks : TaskSetProcessing(t)
    \/ \E t \in Tasks : TaskReadArea(t)
    \/ \E t \in Tasks : TaskLockViz(t)
    \/ \E t \in Tasks : TaskCompute(t)
    \/ \E t \in Tasks : TaskLockPanes(t)
    \/ \E t \in Tasks : TaskWrite(t)

SpecRouter == Init /\ [][RouterNext]_vars

\* ---------------------------------------------------- debouncer (prompt.rs)
dbFrame == <<evalVars, trieVars, jnvVars, searchVars,
    suggestVars,
    rendererVars,
    sessionVars,
    configVars,
    editorVars,
    routeVars>>

\* editor_task (prompt.rs:266-274): an event changed the editor's text; the
\* new text is about to be sent to the query debouncer.
EditorChange ==
    /\ edPc = "idle" /\ nChg < MaxVals
    /\ nChg' = nChg + 1
    /\ edVal' = nChg + 1
    /\ chgAt' = [chgAt EXCEPT ![nChg + 1] = now]
    /\ edPc' = "send"
    /\ UNCHANGED <<now, debounce_rx, last_query, delay, dbPc, dbHold, last_tx,
                   recvd, recvAt, emitted, dbLost, dbAge, engine, ptBusy,
                   nResize, dbFrame>>

\* prompt.rs:275: debounce_query_tx.send(current_text).await on a channel
\* of capacity 1 (prompt.rs:116)
EditorSend ==
    /\ edPc = "send" /\ debounce_rx = NoVal
    /\ debounce_rx' = edVal
    /\ edVal' = NoVal
    /\ edPc' = "idle"
    /\ UNCHANGED <<now, nChg, chgAt, last_query, delay, dbPc, dbHold, last_tx,
                   recvd, recvAt, emitted, dbLost, dbAge, engine, ptBusy,
                   nResize, dbFrame>>

\* The slot keeps its first value until it is emitted.
DebounceRecv_KeepFirst ==
    /\ dbPc = "select" /\ debounce_rx # NoVal
    /\ last_query' = IF last_query = NoVal THEN debounce_rx ELSE last_query
    /\ debounce_rx' = NoVal
    /\ delay' = 0
    /\ recvd' = Append(recvd, debounce_rx)
    /\ recvAt' = now
    /\ dbLost' = IF last_query = NoVal THEN dbLost ELSE dbLost \cup {debounce_rx}
    /\ dbAge' = IF last_query = NoVal THEN 0 ELSE dbAge
    /\ UNCHANGED <<now, edPc, edVal, nChg, chgAt, dbPc, dbHold, last_tx,
                   emitted, engine, ptBusy, nResize, dbFrame>>

\* The delay is created once, outside the loop: a receive does not restart
\* it.
DebounceRecv_NoRestart ==
    /\ dbPc = "select" /\ debounce_rx # NoVal
    /\ last_query' = debounce_rx
    /\ debounce_rx' = NoVal
    /\ recvd' = Append(recvd, debounce_rx)
    /\ recvAt' = now
    /\ dbLost' = IF last_query = NoVal THEN dbLost ELSE dbLost \cup {last_query}
    /\ dbAge' = IF last_query = NoVal THEN 0 ELSE dbAge
    /\ UNCHANGED <<now, edPc, edVal, nChg, chgAt, delay, dbPc, dbHold,
                   last_tx, emitted, engine, ptBusy, nResize, dbFrame>>

\* prompt.rs:36-38 and the next iteration's Delay::new (line 32): the
\* received value overwrites the slot and the delay starts again.
DebounceRecv ==
    /\ dbPc = "select" /\ debounce_rx # NoVal
    /\ last_query' = debounce_rx
    /\ debounce_rx' = NoVal
    /\ delay' = 0
    /\ recvd' = Append(recvd, debounce_rx)
    /\ recvAt' = now
    /\ dbLost' = IF last_query = NoVal THEN dbLost ELSE dbLost \cup {last_query}
    /\ dbAge' = IF last_query = NoVal THEN 0 ELSE dbAge
    /\ UNCHANGED <<now, edPc, edVal, nChg, chgAt, dbPc, dbHold, last_tx,
                   emitted, engine, ptBusy, nResize, dbFrame>>

\* last_query.clone() in place of last_query.take(): the slot keeps the
\* value it has just handed over.
DebounceDelay_Clone ==
    /\ dbPc = "select" /\ delay = Duration
    /\ IF last_query # NoVal
       THEN /\ dbHold' = last_query
            /\ dbPc' = "send"
            /\ UNCHANGED <<last_query, delay>>
       ELSE /\ delay' = 0
            /\ UNCHANGED <<last_query, dbHold, dbPc>>
    /\ UNCHANGED <<now, edPc, edVal, nChg, chgAt, debounce_rx, last_tx, recvd,
                   recvAt, emitted, dbLost, dbAge, engine, ptBusy, nResize,
                   dbFrame>>

\* prompt.rs:43-44: the delay has expired; last_query.take().  With an
\* empty slot the loop starts its next iteration (line 32).
DebounceDelay ==
    /\ dbPc = "select" /\ delay = Duration
    /\ IF last_query # NoVal
       THEN /\ dbHold' = last_query
            /\ last_query' = NoVal
            /\ dbPc' = "send"
            /\ UNCHANGED delay
       ELSE /\ delay' = 0
            /\ UNCHANGED <<last_query, dbHold, dbPc>>
    /\ UNCHANGED <<now, edPc, edVal, nChg, chgAt, debounce_rx, last_tx, recvd,
                   recvAt, emitted, dbLost, dbAge, engine, ptBusy, nResize,
                   dbFrame>>

\* prompt.rs:45: last_tx.send(text).await on a channel of capacity 1
\* (prompt.rs:115), then the next iteration's Delay::new.
DebounceSend ==
    /\ dbPc = "send" /\ last_tx = NoVal
    /\ last_tx' = dbHold
    /\ emitted' = Append(emitted, dbHold)
    /\ dbHold' = NoVal
    /\ dbPc' = "select"
    /\ delay' = 0
    /\ UNCHANGED <<now, edPc, edVal, nChg, chgAt, debounce_rx, last_query,
                   recvd, recvAt, dbLost, dbAge, engine, ptBusy, nResize,
                   dbFrame>>

\* prompt.rs:332-338: the processor task receives the debounced query;
\* render_result spawns one evaluation task (processor.rs:123-144), which
\* calls create_panes_from_query once (processor.rs:81-83), and with it
\* run_jaq once (json.rs:151).
ProcessorQuery ==
    /\ last_tx # NoVal /\ ~ptBusy
    /\ engine' = [engine EXCEPT ![last_tx] = @ + 1]
    /\ last_tx' = NoVal
    /\ UNCHANGED <<now, edPc, edVal, nChg, chgAt, debounce_rx, last_query,
                   delay, dbPc, dbHold, recvd, recvAt, emitted, dbLost, dbAge,
                   ptBusy, nResize, dbFrame>>

\* prompt.rs:339-356: the processor task receives a debounced area and lays
\* the editor's panes out again; it takes nothing from last_query_rx
\* meanwhile.
ProcessorResize ==
    /\ ~ptBusy /\ nResize < MaxResize
    /\ ptBusy' = TRUE
    /\ nResize' = nResize + 1
    /\ UNCHANGED <<now, edPc, edVal, nChg, chgAt, debounce_rx, last_query,
                   delay, dbPc, dbHold, last_tx, recvd, recvAt, emitted,
                   dbLost, dbAge, engine, dbFrame>>

\* prompt.rs:357-364: render_on_resize evaluates the editor's text of that
\* moment; the invocation belongs to the resize, not to a debounced text.
ProcessorResizeDone ==
    /\ ptBusy
    /\ ptBusy' = FALSE
    /\ UNCHANGED <<now, edPc, edVal, nChg, chgAt, debounce_rx, last_query,
                   delay, dbPc, dbHold, last_tx, recvd, recvAt, emitted,
                   dbLost, dbAge, engine, nResize, dbFrame>>

\* A step of the editor task or of the debouncer is ready now.
DebounceReady ==
    \/ edPc = "send" /\ debounce_rx = NoVal
    \/ dbPc = "select" /\ (debounce_rx # NoVal \/ delay = Duration)
    \/ dbPc = "send" /\ last_tx = NoVal

\* One tick of the clock.  The delay of the current loop iteration runs
\* while the debouncer waits in its select (futures_timer::Delay,
\* prompt.rs:32-33).
Tick ==
    /\ now < MaxTime /\ ~DebounceReady
    /\ now' = now + 1
    /\ delay' = IF dbPc = "select" THEN delay + 1 ELSE delay
    /\ dbAge' = IF last_query # NoVal THEN dbAge + 1 ELSE dbAge
    /\ UNCHANGED <<edPc, edVal, nChg, chgAt, debounce_rx, last_query, dbPc,
                   dbHold, last_tx, recvd, recvAt, emitted, dbLost, engine,
                   ptBusy, nResize, dbFrame>>

DebounceNext ==
    \/ EditorChange \/ EditorSend
    \/ DebounceRecv \/ DebounceDelay \/ DebounceSend
    \/ ProcessorQuery \/ ProcessorResize \/ ProcessorResizeDone
    \/ Tick

SpecDebounce == Init /\ [][DebounceNext]_vars

\* ------------------------------------------------------ FilterTrie (trie.rs)
trieFrame == <<evalVars, dbVars, jnvVars, searchVars,
    suggestVars,
    rendererVars,
    sessionVars,
    configVars,
    editorVars,
    routeVars>>

Stored(t) == {k \in Keys : t[k] # NoResult}
IsPrefix(k, q) == Len(k) <= Len(q) /\ SubSeq(q, 1, Len(k)) = k

\* Trie::insert (trie.rs:9-11): the value under the key is set or replaced.
\* An insertion that drops the stored proper prefixes of the key, as a node
\* split that loses the value of the node it splits.
insert_evict(t, k, r) ==
    [k2 \in Keys |-> IF k2 = k THEN r
                     ELSE IF IsPrefix(k2, k) THEN NoResult ELSE t[k2]]
insert(t, k, r) == [t EXCEPT ![k] = r]

\* Trie::get (trie.rs:13-15)
exact_search(t, q) == t[q]

\* The walk of Trie::get_ancestor (trie.rs:19): from the root along the
\* characters of q, as long as a child continues the path; anc is the
\* deepest node passed so far that holds a value (none: the empty set).
RECURSIVE descend(_, _, _, _)
descend(t, q, d, anc) ==
    LET node == SubSeq(q, 1, d)
        here == IF t[node] # NoResult THEN {node} ELSE anc
    IN  IF d < Len(q) /\ \E k \in Stored(t) : IsPrefix(SubSeq(q, 1, d + 1), k)
        THEN descend(t, q, d + 1, here)
        ELSE here

get_ancestor(t, q) == descend(t, q, 0, {})

\* The value of the first (shortest) stored key on the path of the query, as
\* a walk that stops at the first node holding a value returns it.
prefix_search_first(t, q) ==
    LET P == {k \in Stored(t) : IsPrefix(k, q)}
    IN  IF P = {} THEN NoResult
        ELSE t[CHOOSE k \in P : \A k2 \in P : Len(k) <= Len(k2)]

\* self.0.get(query) in place of get_ancestor
prefix_search_exact(t, q) == t[q]

\* FilterTrie::prefix_search (trie.rs:17-21): the value of the ancestor
\* node, if there is one.
prefix_search(t, q) ==
    LET anc == get_ancestor(t, q)
    IN  IF anc = {} THEN NoResult ELSE t[CHOOSE k \in anc : TRUE]

\* FilterTrie::insert
TrieInsert(k, r) ==
    /\ k \in Stored(trie) \/ Cardinality(Stored(trie)) < MaxKeys
    /\ trie' = insert(trie, k, r)
    /\ trieOp' = "insert" /\ trieArg' = k /\ trieOut' = NoResult
    /\ UNCHANGED trieFrame

\* FilterTrie::exact_search
TrieExactSearch(q) ==
    /\ trieOp' = "exact_search" /\ trieArg' = q
    /\ trieOut' = exact_search(trie, q)
    /\ UNCHANGED <<trie, trieFrame>>

\* FilterTrie::prefix_search
TriePrefixSearch(q) ==
    /\ trieOp' = "prefix_search" /\ trieArg' = q
    /\ trieOut' = prefix_search(trie, q)
    /\ UNCHANGED <<trie, trieFrame>>

TrieNext ==
    \/ \E k \in Keys, r \in Results : TrieInsert(k, r)
    \/ \E q \in Keys : TrieExactSearch(q)
    \/ \E q \in Keys : TriePrefixSearch(q)

SpecTrie == Init /\ [][TrieNext]_vars

\* ------------------------------------------- cached evaluation (jnv.rs)
jnvFrame == <<evalVars, dbVars, trieOp, trieArg, trieOut, searchVars,
    suggestVars,
    rendererVars,
    sessionVars,
    configVars,
    editorVars,
    routeVars>>

\* The query "."
identity_query == <<".">>
\* What deserialize_json can return for an input
Documents == Results \cup {EmptyResult, NullResult}
\* The texts the editor is given: the empty text and the queries that
\* start with "."
FilterTexts == {q \in Keys : q = <<>> \/ Head(q) = "."}

\* What the engine can answer to a query: an error ("err"), an output that
\* deserialize_json rejects ("bad"), or a sequence of values ("ok").
NoRet == [kind |-> "none", val |-> NoResult]
JqOutcomes ==
    [kind : {"err", "bad"}, val : {NoResult}] \cup [kind : {"ok"}, val : Documents]

\* run_jq: the engine is run on each value of the document in turn, so on a
\* document without values the answer is the empty sequence whatever the
\* query; the identity query answers the document itself.
run_jq(q, doc) ==
    IF doc = EmptyResult \/ q = identity_query
    THEN {[kind |-> "ok", val |-> doc]}
    ELSE JqOutcomes

\* ret.is_empty() / roots().iter().all(Null)
is_empty(r) == r = EmptyResult
is_null(r) == r = NullResult

\* The hint set on each branch of the match on run_jq's result, hints
\* being enabled (no_hint = false); "init" is the text that
\* reset_after_to_init restores.
HintOf(out) ==
    CASE out.kind = "err" -> "jq failed"
      [] out.kind = "bad" -> "parse failed"
      [] is_empty(out.val) -> "no results"
      [] is_null(out.val) -> "null"
      [] OTHER -> "init"

Success(out) == out.kind = "ok" /\ ~is_empty(out.val) /\ ~is_null(out.val)

\* A fallback that clears the viewer instead of keeping a cached value
Fallback_Clear(t, q, cur) == NoResult
\* if let Some(searched) = trie.prefix_search(&filter) { stream = searched }
Fallback(t, q, cur) ==
    LET searched == prefix_search(t, q)
    IN  IF searched # NoResult THEN searched ELSE cur

\* The cache holds at most MaxKeys keys.
Room(t, q) == q \in Stored(t) \/ Cardinality(Stored(t)) < MaxKeys

\* Jnv::try_new: the input is deserialized, the trie is created and seeded
\* with "." and the viewer shows the document.
JnvTryNew(doc) ==
    /\ jnvPc = "new"
    /\ input_stream' = doc
    /\ trie' = insert(trie, identity_query, doc)
    /\ json_stream' = doc /\ resp' = doc
    /\ jnvPc' = "ready"
    /\ UNCHANGED <<filter, hint, jq_run, jq_ret, jnvFrame>>

\* Jnv::evaluate for an event that changes the editor's text to q; out is
\* what the engine answers if it is run.
JnvEvaluate(q, out) ==
    /\ jnvPc \in {"ready", "run"}
    /\ q # filter
    /\ out \in run_jq(q, input_stream)
    /\ LET jsonl == exact_search(trie, q)
       IN  IF jsonl # NoResult
           THEN /\ json_stream' = jsonl
                /\ hint' = "cache"
                /\ jq_run' = FALSE /\ jq_ret' = NoRet
                /\ UNCHANGED trie
           ELSE /\ jq_run' = TRUE /\ jq_ret' = out
                /\ hint' = HintOf(out)
                /\ IF Success(out)
                   THEN /\ Room(trie, q)
                        /\ trie' = insert(trie, q, out.val)
                        /\ json_stream' = out.val
                   ELSE /\ json_stream' = Fallback(trie, q, json_stream)
                        /\ UNCHANGED trie
    /\ resp' = json_stream'
    /\ filter' = q
    /\ jnvPc' = "run"
    /\ UNCHANGED <<input_stream, jnvFrame>>

JnvNext ==
    \/ \E doc \in Documents : JnvTryNew(doc)
    \/ \E q \in FilterTexts, out \in JqOutcomes : JnvEvaluate(q, out)

SpecJnv == Init /\ [][JnvNext]_vars

\* ------------------------------------ uncached evaluation (jnv/render.rs)
\* QueryTrie::prefix_search_value: the value of the pair that
\* QueryTrie::prefix_search returns for the deepest stored ancestor.
prefix_search_value(t, q) == prefix_search(t, q)

\* Construction of the Renderer: the document is kept in input_json_stream
\* and the cache is created at startup, seeded with identity_query ->
\* Document.
RendererNew(doc) ==
    /\ jnvPc = "new"
    /\ input_stream' = doc
    /\ trie' = insert(trie, identity_query, doc)
    /\ json_stream' = doc /\ resp' = doc
    /\ jnvPc' = "ready"
    /\ UNCHANGED <<filter, hint, jq_run, jq_ret, jnvFrame>>

\* Renderer::evaluate for an event that changes the editor's text to q: the
\* engine is run on every change of the text.
RendererEvaluate(q, out) ==
    /\ jnvPc \in {"ready", "run"}
    /\ q # filter
    /\ out \in run_jq(q, input_stream)
    /\ jq_run' = TRUE /\ jq_ret' = out
    /\ hint' = HintOf(out)
    /\ IF Success(out)
       THEN /\ Room(trie, q)
            /\ trie' = insert(trie, q, out.val)
            /\ json_stream' = out.val
       ELSE /\ json_stream' =
                  LET searched == prefix_search_value(trie, q)
                  IN  IF searched # NoResult THEN searched ELSE json_stream
            /\ UNCHANGED trie
    /\ resp' = json_stream'
    /\ filter' = q
    /\ jnvPc' = "run"
    /\ UNCHANGED <<input_stream, jnvFrame>>

RendererNext ==
    \/ \E doc \in Documents : RendererNew(doc)
    \/ \E q \in FilterTexts, out \in JqOutcomes : RendererEvaluate(q, out)

SpecRender == Init /\ [][RendererNext]_vars
\* ---------------------------------- asynchronous evaluation (jnv_async.rs)
\* Jnv::try_new of jnv_async.rs: as in jnv.rs, the trie is seeded with ".".
AsyncTryNew(doc) ==
    /\ jnvPc = "new"
    /\ input_stream' = doc
    /\ trie' = insert(trie, identity_query, doc)
    /\ json_stream' = doc /\ resp' = doc
    /\ jnvPc' = "ready"
    /\ UNCHANGED <<filter, hint, jq_run, jq_ret, jnvFrame>>

\* Jnv::sync for events that change the editor's text to q: the pane of the
\* editor is sent and the evaluation is spawned as a task.  One task is in
\* flight at a time.
AsyncSync(q) ==
    /\ jnvPc \in {"ready", "run"}
    /\ q # filter
    /\ filter' = q
    /\ jnvPc' = "task"
    /\ UNCHANGED <<trie, input_stream, json_stream, hint, resp, jq_run,
                   jq_ret, jnvFrame>>

\* The task spawned by sync.  It works on `self.trie.clone()` taken by
\* sync: the copy is searched for the fallback, receives the insertion of a
\* successful result, and is dropped when the task ends.
AsyncTask(out) ==
    /\ jnvPc = "task"
    /\ out \in run_jq(filter, input_stream)
    /\ LET clone == trie
           inserted == IF Success(out) THEN insert(clone, filter, out.val)
                       ELSE clone
       IN  /\ jq_run' = TRUE /\ jq_ret' = out
           /\ hint' = HintOf(out)
           /\ json_stream' = IF Success(out)
                             THEN exact_search(inserted, filter)
                             ELSE Fallback(clone, filter, json_stream)
    /\ resp' = json_stream'
    /\ jnvPc' = "run"
    /\ UNCHANGED <<trie, input_stream, filter, jnvFrame>>

AsyncNext ==
    \/ \E doc \in Documents : AsyncTryNew(doc)
    \/ \E q \in FilterTexts : AsyncSync(q)
    \/ \E out \in JqOutcomes : AsyncTask(out)

SpecAsync == Init /\ [][AsyncNext]_vars

\* ------------------------------------------- live evaluation (json.rs)
\* run_jaq: the query is parsed and run on each value of the document in
\* turn; a parse error is the only failure, and a runtime error ends the
\* output of that value silently.
run_jaq(q, doc) ==
    IF doc = EmptyResult \/ q = identity_query
    THEN {[kind |-> "ok", val |-> doc]}
    ELSE [kind : {"err"}, val : {NoResult}] \cup [kind : {"ok"}, val : Documents]

\* ret.iter().all(|val| *val == Value::Null): true of a sequence of nulls
\* and of a sequence without values.
all_null(r) == r = NullResult \/ r = EmptyResult

\* Json::new and the pane of create_init_pane: the viewer shows the
\* document.
JsonNew(doc) ==
    /\ jnvPc = "new"
    /\ input_stream' = doc
    /\ json_stream' = doc /\ resp' = doc
    /\ jnvPc' = "ready"
    /\ UNCHANGED <<trie, filter, hint, jq_run, jq_ret, jnvFrame>>

\* Json::create_panes_from_query for the text q, and the write of the two
\* panes by the evaluation task (processor.rs:89-91): a pane that is None
\* is written as EMPTY_PANE.
JsonQuery(q, out) ==
    /\ jnvPc \in {"ready", "run"}
    /\ q # filter
    /\ out \in run_jaq(q, input_stream)
    /\ jq_run' = TRUE /\ jq_ret' = out
    /\ IF out.kind = "ok"
       THEN /\ hint' = IF all_null(out.val) THEN "null" ELSE "init"
            /\ json_stream' = out.val
            /\ resp' = json_stream'
       ELSE /\ hint' = "jq failed"
            /\ resp' = NoResult
            /\ UNCHANGED json_stream
    /\ filter' = q
    /\ jnvPc' = "run"
    /\ UNCHANGED <<trie, input_stream, jnvFrame>>

JsonNext ==
    \/ \E doc \in Documents : JsonNew(doc)
    \/ \E q \in Keys, out \in JqOutcomes : JsonQuery(q, out)

SpecJson == Init /\ [][JsonNext]_vars
\* ------------------------------------- searcher's load task (search.rs)
searchFrame == <<evalVars, dbVars, trieVars, jnvVars,
    suggestVars,
    rendererVars,
    sessionVars,
    configVars,
    editorVars,
    routeVars>>

\* spawn_load_task (lines 53-64): the task is spawned with its chunk size,
\* the batch is created and the provider returns an iterator over n items.
spawn_load_task(c, n) ==
    /\ ldPc = "new"
    /\ chunk_size' = c /\ total' = n
    /\ ldPc' = "iter"
    /\ UNCHANGED <<taken, batch, shared_set, shared_load_state, searchFrame>>

\* lines 66-69: the next item is pushed on the batch; a batch of at least
\* chunk_size items is flushed.
LoadPush ==
    /\ ldPc = "iter" /\ taken < total
    /\ taken' = taken + 1
    /\ batch' = batch \cup {taken + 1}
    /\ ldPc' = IF Cardinality(batch') >= chunk_size THEN "drain" ELSE "iter"
    /\ UNCHANGED <<chunk_size, total, shared_set, shared_load_state,
                   searchFrame>>

\* lines 70-73: under the lock of the set, the batch is drained into it.
LoadDrain ==
    /\ ldPc = "drain"
    /\ shared_set' = shared_set \cup batch
    /\ batch' = {}
    /\ ldPc' = "count"
    /\ UNCHANGED <<chunk_size, total, taken, shared_load_state, searchFrame>>

\* The count is not advanced.
LoadCount_Skip ==
    /\ ldPc = "count"
    /\ ldPc' = "iter"
    /\ UNCHANGED <<chunk_size, total, taken, batch, shared_set,
                   shared_load_state, searchFrame>>

\* lines 74-75: under the write lock of the state, the count advances by
\* chunk_size.
LoadCount ==
    /\ ldPc = "count"
    /\ shared_load_state' =
           [shared_load_state EXCEPT
               !.loaded_item_len = shared_load_state.loaded_item_len + chunk_size]
    /\ ldPc' = "iter"
    /\ UNCHANGED <<chunk_size, total, taken, batch, shared_set, searchFrame>>

\* lines 79-85: the iterator is exhausted; what is left in the batch is
\* inserted into the set.
LoadRemaining ==
    /\ ldPc = "iter" /\ taken = total
    /\ shared_set' = shared_set \cup batch
    /\ ldPc' = "finish"
    /\ UNCHANGED <<chunk_size, total, taken, batch, shared_load_state,
                   searchFrame>>

\* lines 87-90: under the write lock of the state, loaded is set and the
\* count advances by the number of remaining items.
LoadFinish ==
    /\ ldPc = "finish"
    /\ shared_load_state' =
           [loaded |-> TRUE,
            loaded_item_len |->
                shared_load_state.loaded_item_len + Cardinality(batch)]
    /\ batch' = {}
    /\ ldPc' = "done"
    /\ UNCHANGED <<chunk_size, total, taken, shared_set, searchFrame>>

SearchNext ==
    \/ \E c \in 0..MaxChunk, n \in 0..MaxTotal : spawn_load_task(c, n)
    \/ LoadPush
    \/ LoadDrain
    \/ LoadCount
    \/ LoadRemaining
    \/ LoadFinish

SpecSearch == Init /\ [][SearchNext]_vars
\* ----------------------------- searcher's window (search.rs:94-170)
suggestFrame == <<evalVars, dbVars, trieVars, jnvVars, searchVars,
    rendererVars,
    sessionVars,
    configVars,
    editorVars,
    routeVars>>

\* The default of a listbox without item under its cursor
NoItem == 0
\* Prefixes given to start_search: "" is a prefix of every path, ".a" of
\* the paths with an odd number, ".z" of none.
Prefixes == {"", ".a", ".z"}
starts_with(i, p) == p = "" \/ (p = ".a" /\ i % 2 = 1)

\* Iteration order of the BTreeSet
RECURSIVE Ordered(_)
Ordered(S) ==
    IF S = {} THEN <<>>
    ELSE LET m == CHOOSE x \in S : \A y \in S : x <= y
         IN  <<m>> \o Ordered(S \ {m})

Min(a, b) == IF a <= b THEN a ELSE b
\* drain(..n): the n first elements, and what is left
Drained(s, n) == SubSeq(s, 1, n)
Left(s, n) == SubSeq(s, n + 1, Len(s))

\* Listbox::backward, ::forward, ::get (promkit): the cursor moves inside
\* the items; get is the item under the cursor.
backward(pos) == IF 0 < pos THEN pos - 1 ELSE pos
\* A cursor that moves down without looking at the number of items
forward_unbounded(lb, pos) == pos + 1
forward(lb, pos) == IF Len(lb) # 0 /\ pos < Len(lb) - 1 THEN pos + 1 ELSE pos
get(lb, pos) == IF pos < Len(lb) THEN lb[pos + 1] ELSE NoItem

\* IncrementalSearcher::new: the paging step and the lines of the listbox
\* (lines.unwrap_or(1)) come from the configuration.
SearcherNew(rc, ln) ==
    /\ sPc = "new"
    /\ search_result_chunk_size' = rc /\ lines' = ln
    /\ sPc' = "ready"
    /\ UNCHANGED <<listbox, position, search_chunk_remaining, sOp, sOut,
                   start_result, suggestFrame>>

\* start_search (lines 124-155).  try_lock fails while the load task holds
\* the lock of the set, which it does from the drain of a batch until the
\* count is advanced.
start_search(p) ==
    /\ sPc = "ready"
    /\ IF ldPc = "count"
       THEN /\ sOp' = "start_err" /\ sOut' = NoItem
            /\ UNCHANGED <<listbox, position, search_chunk_remaining,
                           start_result>>
       ELSE LET items == Ordered({i \in shared_set : starts_with(i, p)})
                n == Min(search_result_chunk_size, Len(items))
            IN  /\ sOp' = "start"
                /\ start_result' = [head_some |-> items # <<>>,
                                    load_state |-> shared_load_state]
                /\ IF items = <<>>
                   THEN /\ sOut' = NoItem
                        /\ UNCHANGED <<listbox, position,
                                       search_chunk_remaining>>
                   ELSE /\ search_chunk_remaining' = Left(items, n)
                        /\ listbox' = Drained(items, n)
                        /\ position' = 0
                        /\ sOut' = get(listbox', position')
    /\ UNCHANGED <<sPc, search_result_chunk_size, lines, suggestFrame>>

\* A leave_search that forgets the matches not yet displayed
leave_search_KeepTail ==
    /\ sPc = "ready"
    /\ listbox' = <<>> /\ position' = 0
    /\ sOp' = "leave" /\ sOut' = NoItem
    /\ UNCHANGED <<start_result, sPc, search_chunk_remaining, search_result_chunk_size,
                   lines, suggestFrame>>

\* leave_search (lines 119-122)
leave_search ==
    /\ sPc = "ready"
    /\ listbox' = <<>> /\ position' = 0
    /\ search_chunk_remaining' = <<>>
    /\ sOp' = "leave" /\ sOut' = NoItem
    /\ UNCHANGED <<start_result, sPc, search_result_chunk_size, lines, suggestFrame>>

\* up (lines 94-96), then get_current_item as the editor calls it
\* (editor.rs:298-302)
up ==
    /\ sPc = "ready"
    /\ position' = backward(position)
    /\ sOp' = "up" /\ sOut' = get(listbox, position')
    /\ UNCHANGED <<start_result, sPc, listbox, search_chunk_remaining,
                   search_result_chunk_size, lines, suggestFrame>>

\* A page that is put in front of the window instead of behind it
load_more_Front(lb, rem) ==
    LET n == Min(search_result_chunk_size, Len(rem))
    IN  [listbox |-> Drained(rem, n) \o lb, remaining |-> Left(rem, n)]
\* A page that takes the whole tail whatever the paging step is
load_more_All(lb, rem) == [listbox |-> lb \o rem, remaining |-> <<>>]
\* load_more (lines 157-169): the next page of matches is pushed on the
\* listbox.
load_more(lb, rem) ==
    LET n == Min(search_result_chunk_size, Len(rem))
    IN  [listbox |-> lb \o Drained(rem, n), remaining |-> Left(rem, n)]

\* down_with_load (lines 98-109), then get_current_item (editor.rs:285-289)
down_with_load ==
    /\ sPc = "ready"
    /\ position' = forward(listbox, position)
    /\ LET below == IF Len(listbox) >= position' THEN Len(listbox) - position'
                    ELSE 0
           more == IF below < lines
                   THEN load_more(listbox, search_chunk_remaining)
                   ELSE [listbox |-> listbox,
                         remaining |-> search_chunk_remaining]
       IN  /\ listbox' = more.listbox
           /\ search_chunk_remaining' = more.remaining
    /\ sOp' = "down" /\ sOut' = get(listbox', position')
    /\ UNCHANGED <<start_result, sPc, search_result_chunk_size, lines, suggestFrame>>

\* The window with the load task running beside it
SuggestNext ==
    \/ \E rc \in 0..MaxPage, ln \in 1..MaxPage : SearcherNew(rc, ln)
    \/ \E p \in Prefixes : start_search(p)
    \/ leave_search
    \/ up
    \/ down_with_load
    \/ \E c \in 1..MaxPage, n \in 0..MaxTotal : spawn_load_task(c, n)
    \/ LoadPush
    \/ LoadDrain
    \/ LoadCount
    \/ LoadRemaining
    \/ LoadFinish

SpecSuggest == Init /\ [][SuggestNext]_vars
\* ------------------------------------------- Renderer (render.rs:18-49)
rendererFrame == <<evalVars, dbVars, trieVars, jnvVars, searchVars,
    suggestVars,
    sessionVars,
    configVars,
    editorVars,
    routeVars>>

\* enum PaneIndex
Editor == 0
Guide == 1
ProcessorGuide == 2
Search == 3
Processor == 4
PANE_SIZE == Processor + 1
PaneIndex == 0..(PANE_SIZE - 1)

\* What a caller puts in a pane
TextPane == Pane("text", NoQuery, NoArea)
PaneContents == {EMPTY_PANE, TextPane}
\* prompt.rs:102-111: the editor's pane and four empty panes
init_panes == [i \in PaneIndex |-> IF i = Editor THEN TextPane ELSE EMPTY_PANE]

\* The arguments of update_and_draw: up to MaxIter pairs (index, pane)
Updates == PaneIndex \X PaneContents
Iters == UNION {[1..n -> Updates] : n \in 1..MaxIter}

\* The loop of update_and_draw (lines 41-46)
RECURSIVE Applied(_, _, _)
Applied(ps, nh, iter) ==
    IF iter = <<>> THEN ps
    ELSE LET index == Head(iter)[1]
             pane == Head(iter)[2]
         IN  IF nh /\ (index = Guide \/ index = ProcessorGuide)
             THEN Applied(ps, nh, Tail(iter))
             ELSE Applied([ps EXCEPT ![index] = pane], nh, Tail(iter))

\* Renderer::try_init_draw (lines 25-35)
try_init_draw(nh) ==
    /\ rPc = "new"
    /\ no_hint' = nh /\ panes' = init_panes
    /\ rPc' = "ready"
    /\ UNCHANGED rendererFrame

\* Renderer::update_and_draw (lines 37-49)
update_and_draw(iter) ==
    /\ rPc = "ready"
    /\ panes' = Applied(panes, no_hint, iter)
    /\ UNCHANGED <<rPc, no_hint, rendererFrame>>

\* The last block of an evaluation task (processor.rs:85-94): the guide and
\* the result of create_panes_from_query are stored in the array of panes
\* by index.
ProcessWrite(maybe_guide, maybe_resp) ==
    /\ rPc = "ready"
    /\ panes' = [panes EXCEPT
                    ![ProcessorGuide] = UnwrapOr(maybe_guide, EMPTY_PANE),
                    ![Processor] = UnwrapOr(maybe_resp, EMPTY_PANE)]
    /\ UNCHANGED <<rPc, no_hint, rendererFrame>>

HintNext ==
    \/ \E nh \in BOOLEAN : try_init_draw(nh)
    \/ \E iter \in Iters : update_and_draw(iter)
    \/ \E q \in Queries, a \in Areas :
          ProcessWrite(QueryGuide(q, a), QueryResp(q, a))

SpecHint == Init /\ [][HintNext]_vars
\* --------------------------------- the session (prompt.rs:81-387, main.rs)
sessionFrame == <<evalVars, dbVars, trieVars, jnvVars, searchVars,
    suggestVars, rendererVars,
    configVars,
    editorVars,
    routeVars>>

Debouncers == {"query", "resize"}
\* The tasks of prompt::run run from their spawn to the return of run
Running == runPc = "running"

\* prompt.rs:93-373: raw mode, hidden cursor, channels, and the tasks
RunStart ==
    /\ runPc = "start"
    /\ raw_mode' = TRUE /\ cursor_hidden' = TRUE
    /\ main_task' = "select" /\ editor_task' = "select"
    /\ processor_task' = "select"
    /\ debouncer' = [d \in Debouncers |-> [debouncer[d] EXCEPT !.pc = "select"]]
    /\ runPc' = "running"
    /\ UNCHANGED <<stdout, ctrl_c, editor_event_tx, shared_editor, editor_text,
                   sessionFrame>>

\* The user presses Ctrl-C: the event waits in the event stream.
PressCtrlC ==
    /\ Running /\ ~ctrl_c
    /\ ctrl_c' = TRUE
    /\ UNCHANGED <<runPc, raw_mode, cursor_hidden, stdout, main_task,
                   editor_task, processor_task, editor_event_tx,
                   shared_editor, editor_text, debouncer, sessionFrame>>

\* main_task, prompt.rs:148-151 and 225-236: the next event of the stream
\* is a resize or a key for the focused editor; the task goes to send it.
MainEvent(ev) ==
    /\ Running /\ main_task = "select" /\ ~ctrl_c
    /\ main_task' = ev
    /\ UNCHANGED <<runPc, raw_mode, cursor_hidden, stdout, ctrl_c,
                   editor_task, processor_task, editor_event_tx,
                   shared_editor, editor_text, debouncer, sessionFrame>>

\* prompt.rs:152-159: Ctrl-C breaks the loop; the task returns Ok.
MainCtrlC ==
    /\ Running /\ main_task = "select" /\ ctrl_c
    /\ main_task' = "ok"
    /\ UNCHANGED <<runPc, raw_mode, cursor_hidden, stdout, ctrl_c,
                   editor_task, processor_task, editor_event_tx,
                   shared_editor, editor_text, debouncer, sessionFrame>>

\* prompt.rs:151: debounce_resize_tx.send(..).await? on a channel of
\* capacity 1 (prompt.rs:121)
MainSendResize ==
    /\ Running /\ main_task = "send_resize"
    /\ debouncer["resize"].rx = 0
    /\ debouncer' = [debouncer EXCEPT !["resize"].rx = 1]
    /\ main_task' = "select"
    /\ UNCHANGED <<runPc, raw_mode, cursor_hidden, stdout, ctrl_c,
                   editor_task, processor_task, editor_event_tx,
                   shared_editor, editor_text, sessionFrame>>

\* prompt.rs:228: editor_event_tx.send(event).await? on a channel of
\* capacity 1 (prompt.rs:129).  The send fails once the editor task has
\* returned and dropped its receiver; `?` makes the main task return Err.
MainSendKey ==
    /\ Running /\ main_task = "send_key"
    /\ IF editor_task = "err"
       THEN main_task' = "err" /\ UNCHANGED editor_event_tx
       ELSE /\ editor_event_tx = 0
            /\ editor_event_tx' = 1
            /\ main_task' = "select"
    /\ UNCHANGED <<runPc, raw_mode, cursor_hidden, stdout, ctrl_c,
                   editor_task, processor_task, shared_editor, editor_text,
                   debouncer, sessionFrame>>

\* editor_task, prompt.rs:266-267: an event is received; terminal::size()?
\* is the first terminal call of the branch.
EditorRecv(io_ok) ==
    /\ Running /\ editor_task = "select" /\ editor_event_tx = 1
    /\ editor_event_tx' = 0
    /\ editor_task' = IF io_ok THEN "write" ELSE "err"
    /\ UNCHANGED <<runPc, raw_mode, cursor_hidden, stdout, ctrl_c, main_task,
                   processor_task, shared_editor, editor_text, debouncer,
                   sessionFrame>>

\* prompt.rs:270-274: shared_editor.write().await, editor.operate, and the
\* comparison of the text with text_diff.  The guard stays held for the
\* send when the text has changed; otherwise the panes are created and the
\* block ends (lines 278-284).
EditorOperate(current_text) ==
    /\ Running /\ editor_task = "write" /\ shared_editor = "free"
    /\ IF current_text # editor_text
       THEN /\ editor_text' = current_text
            /\ shared_editor' = "write"
            /\ editor_task' = "send"
       ELSE /\ editor_task' = "draw"
            /\ UNCHANGED <<editor_text, shared_editor>>
    /\ UNCHANGED <<runPc, raw_mode, cursor_hidden, stdout, ctrl_c, main_task,
                   processor_task, editor_event_tx, debouncer, sessionFrame>>

\* prompt.rs:275-283: debounce_query_tx.send(current_text).await? on a
\* channel of capacity 1 (prompt.rs:116), under the write guard of the
\* editor; then the panes are created and the guard is dropped.
EditorSendText ==
    /\ Running /\ editor_task = "send"
    /\ debouncer["query"].rx = 0
    /\ debouncer' = [debouncer EXCEPT !["query"].rx = 1]
    /\ shared_editor' = "free"
    /\ editor_task' = "draw"
    /\ UNCHANGED <<runPc, raw_mode, cursor_hidden, stdout, ctrl_c, main_task,
                   processor_task, editor_event_tx, editor_text, sessionFrame>>

\* prompt.rs:285-291: update_and_draw(..)? under the renderer's lock
EditorDraw(io_ok) ==
    /\ Running /\ editor_task = "draw"
    /\ editor_task' = IF io_ok THEN "select" ELSE "err"
    /\ UNCHANGED <<runPc, raw_mode, cursor_hidden, stdout, ctrl_c, main_task,
                   processor_task, editor_event_tx, shared_editor, editor_text,
                   debouncer, sessionFrame>>

\* spawn_debouncer, prompt.rs:36-38: a value is received into the slot.
SessionDebounceRecv(d) ==
    /\ Running /\ debouncer[d].pc = "select" /\ debouncer[d].rx = 1
    /\ debouncer' = [debouncer EXCEPT ![d].rx = 0, ![d].slot = 1]
    /\ UNCHANGED <<runPc, raw_mode, cursor_hidden, stdout, ctrl_c, main_task,
                   editor_task, processor_task, editor_event_tx,
                   shared_editor, editor_text, sessionFrame>>

\* prompt.rs:43-44: the delay expires with a value in the slot.
SessionDebounceDelay(d) ==
    /\ Running /\ debouncer[d].pc = "select" /\ debouncer[d].slot = 1
    /\ debouncer' = [debouncer EXCEPT ![d].slot = 0, ![d].pc = "send"]
    /\ UNCHANGED <<runPc, raw_mode, cursor_hidden, stdout, ctrl_c, main_task,
                   editor_task, processor_task, editor_event_tx,
                   shared_editor, editor_text, sessionFrame>>

\* prompt.rs:45: let _ = last_tx.send(text).await on a channel of capacity
\* 1 (prompt.rs:115, 120).  The error of a send to a processor task that
\* has returned is ignored.
SessionDebounceSend(d) ==
    /\ Running /\ debouncer[d].pc = "send"
    /\ IF processor_task = "err"
       THEN debouncer' = [debouncer EXCEPT ![d].pc = "select"]
       ELSE /\ debouncer[d].tx = 0
            /\ debouncer' = [debouncer EXCEPT ![d].tx = 1, ![d].pc = "select"]
    /\ UNCHANGED <<runPc, raw_mode, cursor_hidden, stdout, ctrl_c, main_task,
                   editor_task, processor_task, editor_event_tx,
                   shared_editor, editor_text, sessionFrame>>

\* processor_task, prompt.rs:332-338: a debounced query is received and
\* render_result spawns its evaluation task.
ProcessorRecvQuery ==
    /\ Running /\ processor_task = "select" /\ debouncer["query"].tx = 1
    /\ debouncer' = [debouncer EXCEPT !["query"].tx = 0]
    /\ UNCHANGED <<runPc, raw_mode, cursor_hidden, stdout, ctrl_c, main_task,
                   editor_task, processor_task, editor_event_tx,
                   shared_editor, editor_text, sessionFrame>>

\* prompt.rs:339: a debounced area is received.
ProcessorRecvResize ==
    /\ Running /\ processor_task = "select" /\ debouncer["resize"].tx = 1
    /\ debouncer' = [debouncer EXCEPT !["resize"].tx = 0]
    /\ processor_task' = "read_panes"
    /\ UNCHANGED <<runPc, raw_mode, cursor_hidden, stdout, ctrl_c, main_task,
                   editor_task, editor_event_tx, shared_editor, editor_text,
                   sessionFrame>>

\* prompt.rs:340-347: shared_editor.read().await; the panes of the editor
\* are created and the guard is dropped.
ProcessorReadPanes ==
    /\ Running /\ processor_task = "read_panes" /\ shared_editor = "free"
    /\ processor_task' = "draw"
    /\ UNCHANGED <<runPc, raw_mode, cursor_hidden, stdout, ctrl_c, main_task,
                   editor_task, editor_event_tx, shared_editor, editor_text,
                   debouncer, sessionFrame>>

\* prompt.rs:348-354: update_and_draw(..)? under the renderer's lock
ProcessorDraw(io_ok) ==
    /\ Running /\ processor_task = "draw"
    /\ processor_task' = IF io_ok THEN "read_text" ELSE "err"
    /\ UNCHANGED <<runPc, raw_mode, cursor_hidden, stdout, ctrl_c, main_task,
                   editor_task, editor_event_tx, shared_editor, editor_text,
                   debouncer, sessionFrame>>

\* prompt.rs:355-365: shared_editor.read().await for the text, then
\* render_on_resize spawns the evaluation task.
ProcessorReadText ==
    /\ Running /\ processor_task = "read_text" /\ shared_editor = "free"
    /\ processor_task' = "select"
    /\ UNCHANGED <<runPc, raw_mode, cursor_hidden, stdout, ctrl_c, main_task,
                   editor_task, editor_event_tx, shared_editor, editor_text,
                   debouncer, sessionFrame>>

\* prompt.rs:375-387: main_task.await??.  An Err of the main task returns
\* from run at once; after an Ok the six tasks are aborted, the cursor is
\* shown and raw mode is left.  main.rs:349-361: the result of run is
\* passed on with `?`; nothing is printed.
RunJoin ==
    /\ Running /\ main_task \in {"ok", "err"}
    /\ IF main_task = "err"
       THEN /\ runPc' = "returned_err"
            /\ UNCHANGED <<raw_mode, cursor_hidden, editor_task,
                           processor_task, debouncer>>
       ELSE /\ runPc' = "returned_ok"
            /\ editor_task' = "aborted" /\ processor_task' = "aborted"
            /\ debouncer' = [d \in Debouncers |->
                                [debouncer[d] EXCEPT !.pc = "aborted"]]
            /\ cursor_hidden' = FALSE /\ raw_mode' = FALSE
    /\ UNCHANGED <<stdout, ctrl_c, main_task, editor_event_tx, shared_editor,
                   editor_text, sessionFrame>>

SessionNext ==
    \/ RunStart
    \/ PressCtrlC
    \/ \E ev \in {"send_key", "send_resize"} : MainEvent(ev)
    \/ MainCtrlC
    \/ MainSendResize
    \/ MainSendKey
    \/ \E io_ok \in BOOLEAN : EditorRecv(io_ok)
    \/ \E current_text \in 0..MaxVals : EditorOperate(current_text)
    \/ EditorSendText
    \/ \E io_ok \in BOOLEAN : EditorDraw(io_ok)
    \/ \E d \in Debouncers : SessionDebounceRecv(d)
    \/ \E d \in Debouncers : SessionDebounceDelay(d)
    \/ \E d \in Debouncers : SessionDebounceSend(d)
    \/ ProcessorRecvQuery
    \/ ProcessorRecvResize
    \/ ProcessorReadPanes
    \/ \E io_ok \in BOOLEAN : ProcessorDraw(io_ok)
    \/ ProcessorReadText
    \/ RunJoin

SpecSession == Init /\ [][SessionNext]_vars

\* tokio polls every task that can make a step; the arrival of events and
\* the outcome of a terminal call are not the scheduler's.
SessionFairness ==
    /\ WF_vars(RunStart) /\ WF_vars(RunJoin)
    /\ WF_vars(MainCtrlC) /\ WF_vars(MainSendResize) /\ WF_vars(MainSendKey)
    /\ WF_vars(\E io_ok \in BOOLEAN : EditorRecv(io_ok))
    /\ WF_vars(\E current_text \in 0..MaxVals : EditorOperate(current_text))
    /\ WF_vars(EditorSendText)
    /\ WF_vars(\E io_ok \in BOOLEAN : EditorDraw(io_ok))
    /\ \A d \in Debouncers :
          /\ WF_vars(SessionDebounceRecv(d))
          /\ WF_vars(SessionDebounceDelay(d))
          /\ WF_vars(SessionDebounceSend(d))
    /\ WF_vars(ProcessorRecvQuery) /\ WF_vars(ProcessorRecvResize)
    /\ WF_vars(ProcessorReadPanes)
    /\ WF_vars(\E io_ok \in BOOLEAN : ProcessorDraw(io_ok))
    /\ WF_vars(ProcessorReadText)

FairSession == SpecSession /\ SessionFairness
\* ------------------------------------------- configuration (config.rs)
configFrame == <<evalVars, dbVars, trieVars, jnvVars, searchVars,
    suggestVars, rendererVars, sessionVars,
    editorVars,
    routeVars>>

\* The keys of the file that name the field
KeysOf(f) == IF f = "query_debounce_duration" THEN {f, Alias} ELSE {f}

\* toml::from_str into ConfigFile (lines 30, 36-93): deny_unknown_fields
\* rejects a key that is no field and no alias; a field given under two
\* of its names is a duplicate; a field without key is None (Absent).
from_str(c) ==
    IF \/ Unknown \in Present(c)
       \/ \E f \in ConfigFields : Cardinality(KeysOf(f) \cap Present(c)) > 1
    THEN [err |-> TRUE, val |-> [f \in ConfigFields |-> Absent]]
    ELSE [err |-> FALSE,
          val |-> [f \in ConfigFields |->
                     IF KeysOf(f) \cap Present(c) = {} THEN Absent
                     ELSE c[CHOOSE k \in KeysOf(f) \cap Present(c) : TRUE]]]

\* A merge that starts again from an empty style when the file has none
merge_ResetStyle(cfg, config_file) ==
    [f \in ConfigFields |->
        IF config_file[f] # Absent THEN Converted(f, config_file[f])
        ELSE IF f = "prefix_style" THEN Style(0) ELSE cfg[f]]

\* merge (lines 159-313): every field that is Some in the file replaces the
\* field of the Config.
merge(cfg, config_file) ==
    [f \in ConfigFields |->
        IF config_file[f] # Absent THEN Converted(f, config_file[f])
        ELSE cfg[f]]

\* load_string (lines 28-34): the error of from_str is returned by `?`
load_string(c) ==
    /\ cfgPc = "new"
    /\ content' = c
    /\ config' = IF from_str(c).err THEN [err |-> TRUE, val |-> Default]
                 ELSE [err |-> FALSE, val |-> merge(Default, from_str(c).val)]
    /\ cfgPc' = "loaded"
    /\ UNCHANGED configFrame

ConfigNext == \E c \in ConfigFiles : load_string(c)

SpecConfig == Init /\ [][ConfigNext]_vars
\* ------------------------------- the evaluator under the tokio scheduler
\* Every task that can make a step is polled; the arrival of queries and
\* of resizes, and whether a lock is contended at the instant a task asks
\* for it, are not the scheduler's.
EvalFairness ==
    /\ WF_vars(SpinTick) /\ WF_vars(SpinWrite)
    /\ WF_vars(InitStart) /\ WF_vars(InitProvide) /\ WF_vars(InitRender)
    /\ WF_vars(PTStore) /\ WF_vars(PTResizeUpdate)
    /\ WF_vars(\E q \in Queries : PTResizeRender(q))
    /\ \A t \in Tasks :
          /\ WF_vars(TaskStart(t)) /\ WF_vars(TaskDrop(t))
          /\ WF_vars(TaskSetProcessing(t)) /\ WF_vars(TaskReadArea(t))
          /\ WF_vars(TaskLockViz(t)) /\ WF_vars(TaskCompute(t))
          /\ WF_vars(TaskLockPanes(t)) /\ WF_vars(TaskWrite(t))

FairEval == Spec /\ EvalFairness
\* ---------------------------------------------- editor (editor.rs:100-313)
editorFrame == <<evalVars, dbVars, trieVars, jnvVars, searchVars,
                 rendererVars, sessionVars, configVars,
    routeVars>>

\* The events given to the editor: Char stands for a printable character,
\* Enter for an event that no arm of edit matches.
EditorEvents == {"Tab", "Down", "Up", "Char", "Backspace", "Enter"}

\* The path that item i of the set stands for: ".", ".a", ".aa", ...  The
\* BTreeSet orders the paths as texts, which is the order of the items.
PathOf(i) == [k \in 1..i |-> IF k = 1 THEN "." ELSE "a"]
\* to_string of a listbox item; the default item is the empty text
ItemText(i) == IF i = NoItem THEN <<>> ELSE PathOf(i)
\* String::starts_with on a path of the set (search.rs:132)
path_starts_with(i, prefix) == IsPrefix(prefix, PathOf(i))

\* texteditor.insert / erase / replace with the cursor at the end
texteditor_insert(t, ch) == t \o <<ch>>
texteditor_erase(t) == IF t = <<>> THEN t ELSE SubSeq(t, 1, Len(t) - 1)
texteditor_replace(t, new) == new

\* No text in the guide when the lookup fails
lookup_failed_No == ""
\* format!("Failed to lookup suggestions: {}", e) (line 141)
lookup_failed == "Failed to lookup suggestions"

\* edit, Tab arm (lines 109-145): start_search on the text; the head
\* replaces the text and the searcher keybind is installed, or a hint says
\* why not.
EditTab ==
    IF ldPc = "count"
    THEN /\ guide' = lookup_failed
         /\ sOp' = "start_err" /\ sOut' = NoItem
         /\ UNCHANGED <<buffer, keybind, listbox, position,
                        search_chunk_remaining, start_result>>
    ELSE LET items == Ordered({i \in shared_set : path_starts_with(i, buffer)})
             n == Min(search_result_chunk_size, Len(items))
         IN  /\ sOp' = "start"
             /\ start_result' = [head_some |-> items # <<>>,
                                 load_state |-> shared_load_state]
             /\ IF items = <<>>
                THEN /\ guide' = "No suggestion found"
                     /\ sOut' = NoItem
                     /\ UNCHANGED <<buffer, keybind, listbox, position,
                                    search_chunk_remaining>>
                ELSE /\ search_chunk_remaining' = Left(items, n)
                     /\ listbox' = Drained(items, n)
                     /\ position' = 0
                     /\ sOut' = get(listbox', position')
                     /\ guide' = IF shared_load_state.loaded
                                 THEN "Loaded all suggestions"
                                 ELSE "Loaded partially suggestions"
                     /\ buffer' = texteditor_replace(buffer, ItemText(sOut'))
                     /\ keybind' = "search"

\* edit, the other arms (lines 106, 202-268): the guide is cleared, a
\* printable character is inserted, Backspace erases, anything else does
\* nothing.
EditKey(ev, ch) ==
    /\ guide' = ""
    /\ buffer' = CASE ev = "Char" -> texteditor_insert(buffer, ch)
                   [] ev = "Backspace" -> texteditor_erase(buffer)
                   [] OTHER -> buffer

\* edit (lines 105-269), the handler of BOXED_EDITOR_KEYBIND
edit(ev, ch) ==
    /\ sPc = "ready" /\ keybind = "edit"
    /\ ev = "Char" => Len(buffer) < MaxLen
    /\ event' = ev
    /\ IF ev = "Tab"
       THEN EditTab
       ELSE /\ EditKey(ev, ch)
            /\ UNCHANGED <<keybind, listbox, position, search_chunk_remaining,
                           start_result, sOp, sOut>>
    /\ UNCHANGED <<toggled, sPc, search_result_chunk_size, lines,
                   editorFrame>>

\* search (lines 271-313), the handler of BOXED_SEARCHER_KEYBIND: Tab and
\* Down call down_with_load, Up calls up, and the current item replaces the
\* text; any other event leaves the search and is given to edit.
search(ev, ch) ==
    /\ sPc = "ready" /\ keybind = "search"
    /\ event' = ev
    /\ IF ev \in {"Tab", "Down"}
       THEN /\ position' = forward(listbox, position)
            /\ LET below == IF Len(listbox) >= position'
                            THEN Len(listbox) - position' ELSE 0
                   more == IF below < lines
                           THEN load_more(listbox, search_chunk_remaining)
                           ELSE [listbox |-> listbox,
                                 remaining |-> search_chunk_remaining]
               IN  /\ listbox' = more.listbox
                   /\ search_chunk_remaining' = more.remaining
            /\ sOp' = "down" /\ sOut' = get(listbox', position')
            /\ buffer' = texteditor_replace(buffer, ItemText(sOut'))
            /\ UNCHANGED <<keybind, guide>>
       ELSE IF ev = "Up"
       THEN /\ position' = backward(position)
            /\ sOp' = "up" /\ sOut' = get(listbox, position')
            /\ buffer' = texteditor_replace(buffer, ItemText(sOut'))
            /\ UNCHANGED <<keybind, guide, listbox, search_chunk_remaining>>
       ELSE /\ listbox' = <<>> /\ position' = 0
            /\ search_chunk_remaining' = <<>>
            /\ sOp' = "leave" /\ sOut' = NoItem
            /\ keybind' = "edit"
            /\ EditKey(ev, ch)
    /\ UNCHANGED <<toggled, start_result, sPc, search_result_chunk_size,
                   lines, editorFrame>>

\* The editor with its searcher and the load task running beside it, on a
\* document of MaxTotal paths
EditorNext ==
    \/ \E rc \in 0..MaxPage, ln \in 1..MaxPage : SearcherNew(rc, ln)
    \/ \E ev \in EditorEvents, ch \in Chars : edit(ev, ch)
    \/ \E ev \in EditorEvents, ch \in Chars : search(ev, ch)
    \/ \E c \in 1..MaxPage : spawn_load_task(c, MaxTotal)
    \/ LoadPush
    \/ LoadDrain
    \/ LoadCount
    \/ LoadRemaining
    \/ LoadFinish

SpecEditor == Init /\ [][EditorNext]_vars
\* ------------------------------ keymap generation (jnv/keymap.rs:9-302)
\* What the handlers of the keymap generation leave alone
keymapFrame == <<evalVars, dbVars, trieVars, jnvVars, rendererVars,
                 sessionVars, configVars, ldPc, chunk_size, total, taken,
                 batch, shared_load_state, search_chunk_remaining,
                 search_result_chunk_size, lines, sOp, start_result, guide,
    routeVars>>

\* Jnv::try_new (jnv.rs:156-176): suggest holds the paths of the document,
\* a document of n paths
KeymapTryNew(n) ==
    /\ sPc = "new"
    /\ shared_set' = 1..n
    /\ sPc' = "ready"
    /\ UNCHANGED <<keybind, buffer, event, toggled, listbox, position, sOut,
                   keymapFrame>>

\* default, Tab arm (lines 13-30): the candidates that start with the
\* text, shortest first, fill the listbox, the first replaces the text and
\* the keymap is switched; without candidates nothing is done.
DefaultTab ==
    LET candidates ==
            Ordered({i \in shared_set : path_starts_with(i, buffer)})
    IN  IF candidates # <<>>
        THEN /\ listbox' = candidates
             /\ position' = 0
             /\ sOut' = get(listbox', position')
             /\ buffer' = texteditor_replace(buffer, ItemText(sOut'))
             /\ keybind' = "search"
             /\ UNCHANGED toggled
        ELSE UNCHANGED <<listbox, position, sOut, buffer, keybind, toggled>>

\* Arms that do nothing to the text and to the viewer
DefaultKey_Nothing(ev, ch) == UNCHANGED <<buffer, toggled>>
\* default, the other arms (lines 32-236): Backspace erases, Enter toggles
\* the node under the viewer's cursor, a printable character is inserted.
DefaultKey(ev, ch) ==
    /\ buffer' = CASE ev = "Char" -> texteditor_insert(buffer, ch)
                   [] ev = "Backspace" -> texteditor_erase(buffer)
                   [] OTHER -> buffer
    /\ toggled' = IF ev = "Enter" THEN ~toggled ELSE toggled

\* default (lines 9-238), the keymap of Editing
default(ev, ch) ==
    /\ sPc = "ready" /\ keybind = "edit"
    /\ ev = "Char" => Len(buffer) < MaxLen
    /\ event' = ev
    /\ IF ev = "Tab"
       THEN DefaultTab
       ELSE /\ DefaultKey(ev, ch)
            /\ UNCHANGED <<keybind, listbox, position, sOut>>
    /\ UNCHANGED <<sPc, shared_set, keymapFrame>>

\* on_suggest (lines 240-302), the keymap of BrowsingSuggestions: Tab and
\* Down move the listbox down, Up moves it up, and the item under the cursor
\* replaces the text; any other event empties the listbox and switches to
\* default, which is then given the event unless it is Enter.
on_suggest(ev, ch) ==
    /\ sPc = "ready" /\ keybind = "search"
    /\ event' = ev
    /\ IF ev \in {"Tab", "Down", "Up"}
       THEN /\ position' = IF ev = "Up" THEN backward(position)
                           ELSE forward(listbox, position)
            /\ sOut' = get(listbox, position')
            /\ buffer' = texteditor_replace(buffer, ItemText(sOut'))
            /\ UNCHANGED <<listbox, keybind, toggled>>
       ELSE /\ listbox' = <<>> /\ position' = 0
            /\ keybind' = "edit"
            /\ IF ev = "Enter"
               THEN UNCHANGED <<buffer, toggled>>
               ELSE DefaultKey(ev, ch)
            /\ UNCHANGED sOut
    /\ UNCHANGED <<sPc, shared_set, keymapFrame>>

KeymapNext ==
    \/ \E n \in 1..MaxTotal : KeymapTryNew(n)
    \/ \E ev \in EditorEvents, ch \in Chars : default(ev, ch)
    \/ \E ev \in EditorEvents, ch \in Chars : on_suggest(ev, ch)

SpecKeymap == Init /\ [][KeymapNext]_vars
\* -------------------------- focus and forwarding (prompt.rs:128-130, 191-234)
\* The main task of the session with the focus of the router: the phase is
\* Idle throughout, no evaluation being run here.
\* prompt.rs:225-234: an event that is no shortcut goes to the channel of
\* the component that has the focus.
MainForward ==
    /\ Running /\ main_task = "select" /\ mainPc = "read" /\ ~ctrl_c
    /\ main_task' = IF focus = "Editor" THEN "send_key" ELSE "send_processor"
    /\ UNCHANGED <<runPc, raw_mode, cursor_hidden, stdout, ctrl_c,
                   editor_task, processor_task, editor_event_tx,
                   shared_editor, editor_text, debouncer, sessionFrame>>

\* prompt.rs:191-224: Shift-Down / Shift-Up taken from the stream by the
\* main task between two events
FocusShift ==
    /\ Running /\ main_task = "select" /\ ~ctrl_c
    /\ MainShift

\* prompt.rs:231: processor_event_tx.send(event).await? on a channel of
\* capacity 1
MainSendProcessor ==
    /\ Running /\ main_task = "send_processor"
    /\ IF processor_task = "err"
       THEN main_task' = "err" /\ UNCHANGED processor_event_tx
       ELSE /\ processor_event_tx = 0
            /\ processor_event_tx' = 1
            /\ main_task' = "select"
    /\ UNCHANGED <<runPc, raw_mode, cursor_hidden, stdout, ctrl_c,
                   editor_task, processor_task, editor_event_tx,
                   shared_editor, editor_text, debouncer, evalVars, dbVars,
                   trieVars, jnvVars, searchVars, suggestVars, rendererVars,
                   configVars, editorVars>>

\* processor_task, prompt.rs:322-332: an event is received, the visualizer
\* makes its pane from it and the pane is drawn.
ProcessorRecvEvent(io_ok) ==
    /\ Running /\ processor_task = "select" /\ processor_event_tx = 1
    /\ processor_event_tx' = 0
    /\ processor_task' = IF io_ok THEN "select" ELSE "err"
    /\ UNCHANGED <<runPc, raw_mode, cursor_hidden, stdout, ctrl_c, main_task,
                   editor_task, editor_event_tx, shared_editor, editor_text,
                   debouncer, evalVars, dbVars, trieVars, jnvVars, searchVars,
                   suggestVars, rendererVars, configVars, editorVars>>

FocusNext ==
    \/ RunStart
    \/ MainForward
    \/ FocusShift
    \/ MainGuide
    \/ MainSendKey
    \/ MainSendProcessor
    \/ \E io_ok \in BOOLEAN : EditorRecv(io_ok)
    \/ \E current_text \in 0..MaxVals : EditorOperate(current_text)
    \/ EditorSendText
    \/ \E io_ok \in BOOLEAN : EditorDraw(io_ok)
    \/ SessionDebounceRecv("query")
    \/ SessionDebounceDelay("query")
    \/ SessionDebounceSend("query")
    \/ ProcessorRecvQuery
    \/ \E io_ok \in BOOLEAN : ProcessorRecvEvent(io_ok)
    \/ RunJoin

SpecFocus == Init /\ [][FocusNext]_vars
\* ---------------------------------------------------------------- claims
Live(t) == ~Finished(t) /\ ~tasks[t].aborted

\* Nothing is left to run: the processor task waits in its select, every
\* spawned task has finished or was dropped, the spinner waits for a tick.
Quiescent ==
    /\ ptPc = "select" /\ mainPc = "read" /\ copyCh = 0
    /\ spinPc = "tick"
    /\ \A t \in Tasks : Finished(t)

\* What the task of the latest request alone writes to the Processor pane.
ExpectedPane == UnwrapOr(QueryResp(lastQuery, area), EMPTY_PANE)

\* C1: after two or more requests and quiescence, the Processor pane holds
\* what the latest request alone produces (the spinner's frames, which are
\* C4's subject, set aside).
C1_LastWriterWins ==
    (Quiescent /\ nSpawned >= 2) =>
        (procPane = ExpectedPane \/ procPane = LoadingPane)

\* C2: at most one evaluation task is spawned, not finished and not
\* cancelled.
C2_AtMostOneLive == Cardinality({t \in Tasks : Live(t)}) <= 1

C2_Witness ==
    \E t, u \in Tasks :
        /\ Live(t) /\ tasks[t].pc = "compute"
        /\ tasks[u].aborted /\ ~Finished(u)

\* C3: a task on which abort was called writes no pane and draws nothing
\* afterwards.
C3_NoWriteAfterAbort ==
    [][\A t \in Tasks :
          (tasks[t].pc = "a5" /\ tasks'[t].pc = "done") => ~tasks[t].aborted]_vars

\* C4: every write of a loading frame by the spinner happens while the
\* state is Loading or Processing.
C4_SpinnerOnlyWhenBusy ==
    [][(spinPc = "write" /\ spinPc' = "tick") => state # "Idle"]_vars

\* C5: focus changes, in either direction, only in states where the state
\* is Idle.
C5_FocusOnlyWhenIdle == [][focus' # focus => state = "Idle"]_vars

\* C6: the viewer's content is written to the clipboard only while the
\* state is Idle.
C6_CopyOnlyWhenIdle ==
    [][(ptPc = "cp_lock" /\ ptPc' = "cp_guide" /\ ptArg' = 1)
          => state = "Idle"]_vars

\* ------------------------------------------------------- debouncer claims
Range(s) == {s[i] : i \in 1..Len(s)}
Last(s) == s[Len(s)]
Occurred == 1..nChg

\* s is t with some elements left out, the order kept.
RECURSIVE IsSubSeq(_, _)
IsSubSeq(s, t) ==
    IF s = <<>> THEN TRUE
    ELSE IF t = <<>> THEN FALSE
    ELSE IF Head(s) = Head(t) THEN IsSubSeq(Tail(s), Tail(t))
    ELSE IsSubSeq(s, Tail(t))

C8_EmitsLatestOnce ==
    [][/\ IsSubSeq(emitted', recvd')
       /\ Cardinality(Range(emitted')) = Len(emitted')
       /\ Range(emitted') \cap dbLost' = {}
       /\ (dbHold' # NoVal /\ dbHold = NoVal) =>
              (dbHold' = Last(recvd) /\ last_query' = NoVal)
       /\ emitted' # emitted =>
              (Last(emitted') = Last(recvd') /\ last_query' = NoVal)]_vars

C8_Witness ==
    /\ Len(emitted) >= 2 /\ dbLost # {}
    /\ last_tx = Last(emitted) /\ last_query = NoVal

\* C9 as stated: a non-empty slot is emptied by an emission within one
\* duration of becoming non-empty.
C9_EmittedWithinWindow == last_query # NoVal => dbAge <= Duration

\* C9 as amended: while the slot is non-empty, no more than one duration
\* has passed since the latest value arrived (every arrival restarts the
\* delay), and the value in the slot is that latest value.
C9_EmittedAfterQuiet ==
    last_query # NoVal =>
        (now - recvAt <= Duration /\ last_query = Last(recvd))

C9_Witness ==
    /\ last_query # NoVal /\ now - recvAt = Duration
    /\ dbAge > Duration /\ dbLost # {}

\* ------------------------------------------------------------ trie claims
\* The stored keys that are a prefix of q.
StoredPrefixes(t, q) == {k \in Stored(t) : IsPrefix(k, q)}

\* C10: prefix_search(q) returns the value under the longest stored key
\* that is a prefix of q, and none when no stored key is a prefix of q.
C10_LongestStoredPrefix ==
    trieOp = "prefix_search" =>
        LET P == StoredPrefixes(trie, trieArg)
        IN  IF P = {} THEN trieOut = NoResult
            ELSE \E k \in P : /\ \A k2 \in P : Len(k2) <= Len(k)
                              /\ trieOut = trie[k]

C10_Witness ==
    /\ trieOp = "prefix_search" /\ trieOut # NoResult
    /\ \E k1, k2 \in StoredPrefixes(trie, trieArg) :
          /\ Len(k1) < Len(k2) /\ Len(k2) < Len(trieArg)
          /\ trie[k1] # trie[k2] /\ trieOut = trie[k2]

\* C11: in every cache state, for every query q, exact_search(q) = Some(r)
\* implies prefix_search(q) = Some(r).
C11_ExactImpliesPrefix ==
    \A q \in Keys :
        exact_search(trie, q) # NoResult =>
            prefix_search(trie, q) = exact_search(trie, q)

C11_Witness ==
    /\ trieOp = "prefix_search" /\ trie[trieArg] # NoResult
    /\ trieOut = trie[trieArg]
    /\ \E k \in Stored(trie) :
          /\ IsPrefix(k, trieArg) /\ k # trieArg /\ trie[k] # trie[trieArg]

\* ----------------------------------------------------------- cache claims
\* The step inserts under k: the seeding at startup, or the evaluation of
\* the text k that ran the engine.
C12_InsertedNow(k) ==
    \/ jnvPc = "new" /\ k = identity_query
                     /\ exact_search(trie', k) = input_stream'
    \/ jnvPc # "new" /\ k = filter' /\ jq_run'
                     /\ exact_search(trie', k) = json_stream'

\* C12: exact_search(q) returns the value inserted under the identical key
\* and none for a key never inserted, whatever prefixes or extensions of it
\* are stored; no query evicts or replaces an entry: once q -> r is stored,
\* exact_search(q) = r in every later state.
C12_ExactStable ==
    [][\A k \in Keys :
         /\ exact_search(trie, k) # NoResult =>
                exact_search(trie', k) = exact_search(trie, k)
         /\ exact_search(trie, k) = NoResult /\ exact_search(trie', k) # NoResult
                => C12_InsertedNow(k)
         /\ k = filter' /\ filter' # filter /\ jq_run' /\ hint' = "init"
                => exact_search(trie', k) = json_stream']_vars

C12_Witness ==
    /\ hint = "cache" /\ filter # identity_query
    /\ exact_search(trie, filter) = json_stream
    /\ exact_search(trie, identity_query) \notin {NoResult, json_stream}
    /\ \E k \in Keys, k2 \in Stored(trie) :
          IsPrefix(k2, k) /\ exact_search(trie, k) = NoResult
    /\ \E k \in Keys, k2 \in Stored(trie) :
          IsPrefix(k, k2) /\ exact_search(trie, k) = NoResult

\* C13: every value stored in the cache was observed to be non-empty and not
\* all-null, so in every reachable state every cached value is non-empty and
\* not all-null, for every input document.
C13_CachedNotDegraded ==
    \A k \in Stored(trie) :
        ~is_empty(exact_search(trie, k)) /\ ~is_null(exact_search(trie, k))

\* C14: on_query looks the text up exactly in the cache before it invokes
\* the engine; on a hit the engine is not invoked, the viewer is rebuilt
\* from the cached result and the 'from cache' guide is shown.
C14_HitSkipsEngine ==
    [][filter' # filter /\ exact_search(trie, filter') # NoResult =>
          /\ ~jq_run'
          /\ json_stream' = exact_search(trie, filter')
          /\ hint' = "cache"]_vars

\* C15: after on_query evaluates a text q that misses the cache and
\* succeeds with a non-empty, non-all-null result r, the cache shared by
\* later evaluations contains q -> r (so that a later on_query(q) hits).
C15_SuccessIsCached ==
    [][/\ jnvPc # "new" /\ jnvPc' = "run"
       /\ exact_search(trie, filter') = NoResult
       /\ jq_run' /\ hint' = "init"
       => exact_search(trie', filter') = json_stream']_vars

\* -------------------------------------------------------- failure claims
\* C16: when the engine fails on a query, the 'jq failed' guide is shown and
\* the Processor pane keeps its last valid content: it is neither emptied
\* nor replaced.
C16_FailureKeepsPane ==
    [][/\ procGuide'.k = "jq failed" /\ procGuide' # procGuide
       /\ procPane.k = "res"
       => procPane' = procPane]_vars

\* The latest evaluation ran the engine and got a failure, an empty result
\* or an all-null result.
DegradedRet(ret) ==
    \/ ret.kind \in {"err", "bad"}
    \/ ret.kind = "ok" /\ (is_empty(ret.val) \/ is_null(ret.val))

\* C17: when a query fails or returns an empty or all-null result, the
\* viewer shows the result cached under the longest stored prefix of the
\* query if there is one, and not the degraded result; when no stored key
\* is a prefix the viewer is unchanged.
C17_DegradedShowsFallback ==
    [][jnvPc # "new" /\ jnvPc' = "run" /\ DegradedRet(jq_ret') =>
          resp' = IF prefix_search(trie, filter') # NoResult
                  THEN prefix_search(trie, filter') ELSE resp]_vars

\* C18: an empty result yields the 'no results' warning and a non-empty
\* sequence of nulls the 'result is null' warning, never the other way
\* round.
C18_DistinctWarnings ==
    jq_ret.kind = "ok" =>
        /\ is_empty(jq_ret.val) <=> hint = "no results"
        /\ is_null(jq_ret.val) <=> hint = "null"

\* C19: the first evaluation of the identity query after startup shows the
\* document with an empty guide: no cache-hit guide for a query that was
\* not evaluated before.
C19_FirstIdentityNoCacheGuide ==
    [][jnvPc = "ready" /\ jnvPc' = "run" /\ filter' = identity_query =>
          /\ resp' = input_stream
          /\ hint' = "init"]_vars

C22_CursorInsideWindow ==
    listbox # <<>> =>
        /\ 0 <= position /\ position < Len(listbox)
        /\ sOp \in {"up", "down"} => sOut = listbox[position + 1]

\* the cursor was moved down to the last element of a window that
\* load_more has extended, and up again
C22_Witness ==
    /\ sOp = "up"
    /\ Len(listbox) > search_result_chunk_size
    /\ position = Len(listbox) - 2
    /\ sOut = listbox[position + 1]
    /\ search_chunk_remaining = <<>>

\* C23: with hints disabled the Guide and ProcessorGuide panes keep their
\* initial content: every update to one of them is dropped.
C23_HintPanesKeepInitial ==
    (rPc = "ready" /\ no_hint) =>
        /\ panes[Guide] = init_panes[Guide]
        /\ panes[ProcessorGuide] = init_panes[ProcessorGuide]

\* C24: once the session has ended on Ctrl-C, the editor's text of the
\* moment of exit has been printed on standard output, exactly once.
C24_FilterPrintedOnce ==
    runPc = "returned_ok" => stdout = <<editor_text>>

\* C25: whenever Ctrl-C is pressed the session eventually shuts down
\* cleanly: run returns Ok with the background tasks aborted, the cursor
\* shown and raw mode left.
C25_CtrlCShutsDown ==
    ctrl_c ~> (/\ runPc = "returned_ok"
               /\ editor_task = "aborted" /\ processor_task = "aborted"
               /\ \A d \in Debouncers : debouncer[d].pc = "aborted"
               /\ ~cursor_hidden /\ ~raw_mode)

\* C26: a terminal failure in a task ends the session, and the session
\* does not end on that path without its teardown: when run has returned
\* after a task failed, the cursor is shown and raw mode is left.
C26_FailureEndsWithTeardown ==
    (runPc \in {"returned_ok", "returned_err"}
        /\ (editor_task = "err" \/ processor_task = "err"
            \/ main_task = "err"))
    => (~cursor_hidden /\ ~raw_mode)

\* C28: the editor task is never blocked sending to the full debounce
\* channel under the editor's write lock while the processor task waits
\* for the editor's lock and the query debouncer is blocked sending to
\* the full last-query channel.
C28_NoSendLockCycle ==
    ~(/\ editor_task = "send" /\ shared_editor = "write"
      /\ debouncer["query"].rx = 1
      /\ processor_task \in {"read_panes", "read_text"}
      /\ debouncer["query"].pc = "send" /\ debouncer["query"].tx = 1)

\* C27: a loaded configuration has, in every field the file gives, the
\* value of the file, and in every field the file omits, the default; a
\* file with an unknown field is rejected with an error.
C27_Given(f) == KeysOf(f) \cap Present(content)
C29_EventuallyIdle == <>[](state = "Idle")

\* C30: no lock other than the renderer's is held by a task that is
\* suspended: the editor task does not wait for room in the debounce
\* channel with the editor's write lock in its hands.
C30_NoLockAcrossSuspension ==
    (editor_task = "send" /\ debouncer["query"].rx = 1)
        => shared_editor # "write"

\* C31: a start_search(p) that obtains both locks with n >= 1 stored paths
\* starting with p leaves the first min(result_chunk_size, n) of them in
\* the window in the set's order with the cursor on the first, the others
\* in the tail in the same order, and returns the first matching path as
\* head with a snapshot of load_state; with no matching path it returns no
\* head.
C31_Matches(p) == {i \in shared_set : starts_with(i, p)}
C31_Increasing(s) == \A a, b \in 1..Len(s) : a < b => s[a] < s[b]
C31_StartSearchResult ==
    [][\A p \in Prefixes :
          (start_search(p) /\ ldPc # "count") =>
             IF C31_Matches(p) # {}
             THEN LET all == listbox' \o search_chunk_remaining'
                  IN  /\ Len(listbox') =
                            Min(search_result_chunk_size,
                                Cardinality(C31_Matches(p)))
                      /\ C31_Increasing(all)
                      /\ {all[a] : a \in 1..Len(all)} = C31_Matches(p)
                      /\ position' = 0
                      /\ start_result'.head_some
                      /\ \A i \in C31_Matches(p) : sOut' <= i
                      /\ sOut' \in C31_Matches(p)
                      /\ start_result'.load_state = shared_load_state
             ELSE ~start_result'.head_some]_vars

\* C33: down_with_load moves the cursor one item down, staying on the last
\* item when it is already there; then, if and only if the window length
\* minus the cursor position is less than the visible suggestion lines, it
\* moves min(result_chunk_size, tail length) items from the front of the
\* tail to the end of the window, in order; otherwise window and tail are
\* unchanged.
C33_DownWithLoad ==
    [][down_with_load =>
        LET k == Min(search_result_chunk_size, Len(search_chunk_remaining))
        IN  /\ position' = IF position + 1 < Len(listbox) THEN position + 1
                           ELSE position
            /\ IF Len(listbox) - position' < lines
               THEN /\ listbox' = listbox \o
                           SubSeq(search_chunk_remaining, 1, k)
                    /\ search_chunk_remaining' =
                           SubSeq(search_chunk_remaining, k + 1,
                                  Len(search_chunk_remaining))
               ELSE /\ listbox' = listbox
                    /\ search_chunk_remaining' = search_chunk_remaining]_vars

\* A down that loaded one page and left items in the tail
C33_Witness ==
    /\ sOp = "down"
    /\ search_result_chunk_size >= 1
    /\ Len(listbox) > search_result_chunk_size
    /\ search_chunk_remaining # <<>>
    /\ position >= 1

\* C37: from a start_search that returned a head until the next start_search
\* or leave_search, the window followed by the tail is the ordered list of
\* the matches that start_search collected: start_search leaves exactly
\* that list split over window and tail, and every up and down_with_load
\* keeps the concatenation as it is while the window only grows.
C37_WindowThenTailKept ==
    [][/\ \A p \in Prefixes :
            (start_search(p) /\ ldPc # "count" /\ C31_Matches(p) # {}) =>
                /\ C31_Increasing(listbox' \o search_chunk_remaining')
                /\ {(listbox' \o search_chunk_remaining')[k] :
                      k \in 1..Len(listbox' \o search_chunk_remaining')}
                   = C31_Matches(p)
       /\ (up \/ down_with_load) =>
                /\ listbox' \o search_chunk_remaining'
                   = listbox \o search_chunk_remaining
                /\ Len(listbox') >= Len(listbox)
                /\ SubSeq(listbox', 1, Len(listbox)) = listbox]_vars

\* After a start_search with a head, a down_with_load that grew the window
\* and an up, matches are still waiting in the tail.
C37_Witness ==
    /\ sOp = "up"
    /\ start_result.head_some
    /\ search_result_chunk_size >= 1
    /\ Len(listbox) > search_result_chunk_size
    /\ search_chunk_remaining # <<>>

\* C38: after a start_search that returned a head, repeated down_with_load
\* calls empty the tail and bring the cursor to the last match, for every
\* number of visible lines >= 1 and every result_chunk_size >= 1; so while
\* matches wait in the tail no down_with_load leaves cursor, window and
\* tail all as they were.
C38_DownReachesEveryMatch ==
    [][(/\ down_with_load
        /\ sOp \in {"start", "up", "down"}
        /\ start_result.head_some
        /\ lines >= 1
        /\ search_result_chunk_size >= 1
        /\ search_chunk_remaining # <<>>) =>
            \/ position' # position
            \/ listbox' # listbox
            \/ search_chunk_remaining' # search_chunk_remaining]_vars

\* C40: after a Ctrl-O accepted in phase Idle the Guide pane ends up showing
\* the outcome of the copy: the main task's own empty Guide update for that
\* keypress never lands on the outcome hint that the processor task wrote
\* for it.  The main task writes an empty pane with the focus on the editor
\* only at the end of the Ctrl-O handler (the Shift handler moves the focus
\* first), and the copy it asked for is done once the request has left the
\* channel and the processor task has left the copy branch.
C40_CopyOutcomes ==
    {Pane("copied", NoQuery, NoArea), Pane("copy failed", NoQuery, NoArea)}
C40_OutcomeHintStays ==
    [][(/\ MainGuide
        /\ mainPane = EMPTY_PANE /\ focus = "Editor"
        /\ copyCh = 0 /\ ptPc \notin {"cp_lock", "cp_guide"}) =>
            guidePane \notin C40_CopyOutcomes]_vars

\* C39: in the cache-backed evaluator, in every state after construction
\* the value sequence shown by the viewer is a value stored in the filter
\* cache (the seed, a cache hit, the result the evaluation has just
\* inserted, or the value of the longest stored prefix).
C39_ViewerShowsCachedValue ==
    jnvPc # "new" =>
        /\ resp = json_stream
        /\ \E k \in Stored(trie) : trie[k] = json_stream

\* An evaluation that failed with two keys in the cache and fell back to
\* the value of the longest stored prefix of the text
C39_Witness ==
    /\ jnvPc = "run"
    /\ jq_run /\ ~Success(jq_ret)
    /\ Cardinality(Stored(trie)) >= 2
    /\ json_stream = prefix_search(trie, filter)

\* ---------------------------------------------------------- editor claims
\* The completion key given to edit while the load task holds the lock
C32_BusyTab == (\E ch \in Chars : edit("Tab", ch)) /\ ldPc = "count"
C32_NothingMoved ==
    /\ sOp' = "start_err"
    /\ listbox' = listbox /\ position' = position
    /\ search_chunk_remaining' = search_chunk_remaining
    /\ buffer' = buffer /\ keybind' = keybind

\* C32: when start_search cannot obtain the lock on the path set or on the
\* load state, it fails with transient busy without blocking and the
\* failure is recovered silently: window, tail, editor buffer and sub-state
\* stay unchanged and no hint is shown.
C32_BusyRecoveredSilently ==
    [][C32_BusyTab => (C32_NothingMoved /\ guide' = "")]_vars

\* C32 as the code has it: the same, except that the guide shows a hint
\* saying that the lookup failed.
C32_BusyRecoveredWithHint ==
    [][C32_BusyTab =>
          (C32_NothingMoved /\ guide' = "Failed to lookup suggestions")]_vars

\* The completion key was pressed on a typed text while the set was locked
C32_Witness ==
    /\ event = "Tab" /\ sOp = "start_err"
    /\ keybind = "edit" /\ buffer # <<>>
    /\ guide = "Failed to lookup suggestions"

\* The completion key handled in Editing, by either generation of the
\* handler, with the path set's lock free
C34_CompletionKey ==
    /\ \E ch \in Chars : edit("Tab", ch) \/ default("Tab", ch)
    /\ ldPc # "count"
C34_Matches == {i \in shared_set : path_starts_with(i, buffer)}

\* C34: in the Editing sub-state the completion key calls start_search with
\* the current text: if a head exists the buffer becomes the head and the
\* sub-state becomes BrowsingSuggestions; if no head exists the sub-state
\* stays Editing, the buffer is unchanged and a no-match hint is shown.
C34_CompletionOutcome ==
    [][C34_CompletionKey =>
          IF C34_Matches # {}
          THEN /\ buffer' = ItemText(sOut')
               /\ keybind' = "search"
          ELSE /\ keybind' = "edit"
               /\ buffer' = buffer
               /\ guide' = "No suggestion found"]_vars

\* The events that neither handler of BrowsingSuggestions keeps
C35_OtherEvents == EditorEvents \ {"Down", "Tab", "Up"}
\* The mode is left: window and tail emptied, sub-state Editing
C35_Left ==
    /\ listbox' = <<>> /\ search_chunk_remaining' = <<>>
    /\ keybind' = "edit"
\* What the event does to the text in Editing
C35_TextAsInEditing(ev, ch) ==
    buffer' = CASE ev = "Char" -> buffer \o <<ch>>
                [] ev = "Backspace" ->
                      IF buffer = <<>> THEN buffer
                      ELSE SubSeq(buffer, 1, Len(buffer) - 1)
                [] OTHER -> buffer

C36_FocusedComponentOnly ==
    [][/\ (editor_event_tx = 0 /\ editor_event_tx' = 1) =>
             (focus = "Editor" /\ processor_event_tx' = processor_event_tx)
       /\ (processor_event_tx = 0 /\ processor_event_tx' = 1) =>
             (focus = "Processor" /\ editor_event_tx' = editor_event_tx)
       /\ focus = "Processor" =>
             /\ editor_text' = editor_text
             /\ ~(debouncer["query"].rx = 0 /\ debouncer'["query"].rx = 1)]_vars
====
